---- MODULE Spec2Model ----
(***************************************************************************)
(* A model of the recipe recommendation service                            *)
(* (StephenDsouza90/genai-pipeline-challenge).                              *)
(*                                                                         *)
(* The module holds several specifications over one set of variables:      *)
(*   SpecApi      the HTTP route layer, the services being stubs that      *)
(*                return or raise as a service of that interface may       *)
(*   SpecBoot     DatabaseManager.bootstrap, step by step                  *)
(*   SpecBootFair the same with the fairness of a running Python thread    *)
(* A specification leaves the variables of the other layers unchanged.     *)
(*                                                                         *)
(* Conventions.  An Optional value is None (the empty tuple) or Some(x)    *)
(* (the one-element tuple).  A Python str the code only compares or passes *)
(* on is a TLA+ string; a str or bytes value the code looks into is a      *)
(* sequence of characters or of byte values.                               *)
(***************************************************************************)
EXTENDS Integers, Sequences, FiniteSets, TLC

VARIABLES
    apiReq,      \* the HTTP request being answered (endpoint, inputs, stub outcomes)
    apiResp,     \* the HTTP response of that request
    apiCalls,    \* the calls the handler made on its service, in order
    apiLog,      \* the logger.error records the handler wrote
    bootPc,      \* bootstrap: position in the method
    bootArgs,    \* bootstrap: the arguments it was called with
    bootLocals,  \* bootstrap: max_retries, retry_delay, i, connection
    bootTrace,   \* bootstrap: what it did so far (attempts, sleeps, tables)
    parseContent, \* parse_content: the content it was called with (lines and text)
    parseResult, \* parse_content: the recipe it returned, or None
    store,       \* the rows of the recipes table, in insertion order
    svcOp,       \* the service or repository call being made, with its inputs
    svcCalls,    \* the calls it made on its collaborators, in order
    svcResult,   \* what it returned or raised
    lifePc,      \* lifespan: position in the coroutine
    life         \* lifespan: app.state, the steps it ran, what it raised

apiVars == <<apiReq, apiResp, apiCalls, apiLog>>
bootVars == <<bootPc, bootArgs, bootLocals, bootTrace>>
parseVars == <<parseContent, parseResult>>
svcVars == <<store, svcOp, svcCalls, svcResult>>
lifeVars == <<lifePc, life>>
vars == <<apiVars, bootVars, parseVars, svcVars, lifeVars>>

----------------------------------------------------------------------------
(* Optional values and small helpers *)

None == <<>>
Some(x) == <<x>>

Range(s) == {s[i] : i \in DOMAIN s}

SeqsUpTo(S, n) == UNION {[1..k -> S] : k \in 0..n}

IsPrefix(p, s) == Len(p) <= Len(s) /\ SubSeq(s, 1, Len(p)) = p

----------------------------------------------------------------------------
(* Exceptions: a record of the class and the message; `except Exception`   *)
(* catches every one of these classes.                                     *)

Exc(type, msg) == [type |-> type, msg |-> msg]

HTTPException(status_code, detail) ==
    [type |-> "HTTPException", status_code |-> status_code, detail |-> detail]

----------------------------------------------------------------------------
(* Settings and constants *)

recipe_ingestion_error ==
    "I apologize, but I'm having trouble ingesting recipes at the moment. Please try again later."

recipe_recommendation_error ==
    "I apologize, but I'm having trouble generating a recipe recommendation at the moment. Please try again later."

IMAGE_CONTENT_TYPE_PREFIX == <<"i", "m", "a", "g", "e", "/">>

HTTP_200_OK == 200
HTTP_400_BAD_REQUEST == 400
HTTP_500_INTERNAL_SERVER_ERROR == 500

----------------------------------------------------------------------------
(* bytes.decode("utf-8"), strict.  One-byte and two-byte sequences are     *)
(* decoded to their code points; every other byte raises                   *)
(* UnicodeDecodeError.  The byte alphabet of the model holds no lead byte  *)
(* of a three- or four-byte sequence, so on it this is the full decoder.   *)

IsContinuation(b) == b >= 128 /\ b <= 191

RECURSIVE Utf8DecodeFrom(_, _, _)
Utf8DecodeFrom(bytes, i, acc) ==
    IF i > Len(bytes) THEN [ok |-> TRUE, text |-> acc, exc |-> None]
    ELSE IF bytes[i] < 128 THEN Utf8DecodeFrom(bytes, i + 1, Append(acc, bytes[i]))
    ELSE IF bytes[i] >= 194 /\ bytes[i] <= 223
        THEN IF i + 1 <= Len(bytes) /\ IsContinuation(bytes[i + 1])
             THEN Utf8DecodeFrom(bytes, i + 2,
                      Append(acc, (bytes[i] - 192) * 64 + (bytes[i + 1] - 128)))
             ELSE [ok |-> FALSE, text |-> <<>>,
                   exc |-> Some(Exc("UnicodeDecodeError",
                       IF i + 1 > Len(bytes) THEN "unexpected end of data"
                       ELSE "invalid continuation byte"))]
    ELSE [ok |-> FALSE, text |-> <<>>,
          exc |-> Some(Exc("UnicodeDecodeError", "invalid start byte"))]

Utf8Decode(bytes) == Utf8DecodeFrom(bytes, 1, <<>>)

----------------------------------------------------------------------------
(* The route layer (src/api).  The service behind a route is a stub, as in *)
(* the unit tests: each call returns a value or raises, as the request's   *)
(* outcome says.                                                           *)

\* No request is being answered.
NoRequest == [endpoint |-> "none"]

\* datetime.isoformat(): the text of a timestamp.
Isoformat(t) == [iso |-> t]

\* RecipeResponse(...) as the ingestion route builds it from a Recipe.
RecipeResponse(recipe) ==
    [id |-> recipe.id,
     title |-> recipe.title,
     ingredients |-> recipe.ingredients,
     instructions |-> recipe.instructions,
     embedding |-> None,
     created_at |-> IF recipe.created_at # None
                    THEN Some(Isoformat(recipe.created_at[1])) ELSE None,
     updated_at |-> IF recipe.updated_at # None
                    THEN Some(Isoformat(recipe.updated_at[1])) ELSE None]

\* An entry that never carries an error.
IngestRecipeResponseNoError(success, recipe, error) ==
    [success |-> success, recipe |-> recipe, error |-> None]

IngestRecipeResponse(success, recipe, error) ==
    [success |-> success, recipe |-> recipe, error |-> error]

\* IngestOne with the decoding left out: the service gets the raw bytes.
IngestOneNoDecode(content, outcome) ==
    LET calls == <<[fn |-> "ingest_recipe", arg |-> content]>> IN
    IF outcome.kind = "raise"
    THEN [raised |-> TRUE, exc |-> outcome.exc, calls |-> calls, entry |-> None]
    ELSE IF outcome.value = None
    THEN [raised |-> FALSE, exc |-> None, calls |-> calls,
          entry |-> Some(IngestRecipeResponse(FALSE, None,
                                              Some(recipe_ingestion_error)))]
    ELSE [raised |-> FALSE, exc |-> None, calls |-> calls,
          entry |-> Some(IngestRecipeResponse(TRUE,
                        Some(RecipeResponse(outcome.value[1])), None))]

\* The body of the route's for loop for one file: read, decode, call the
\* service, build the entry.  `outcome` is what ingest_recipe does when called.
IngestOne(content, outcome) ==
    LET dec == Utf8Decode(content) IN
    IF ~dec.ok
    THEN [raised |-> TRUE, exc |-> dec.exc, calls |-> <<>>, entry |-> None]
    ELSE LET calls == <<[fn |-> "ingest_recipe", arg |-> dec.text]>> IN
         IF outcome.kind = "raise"
         THEN [raised |-> TRUE, exc |-> outcome.exc, calls |-> calls,
               entry |-> None]
         ELSE IF outcome.value = None
         THEN [raised |-> FALSE, exc |-> None, calls |-> calls,
               entry |-> Some(IngestRecipeResponse(FALSE, None,
                                                   Some(recipe_ingestion_error)))]
         ELSE [raised |-> FALSE, exc |-> None, calls |-> calls,
               entry |-> Some(IngestRecipeResponse(TRUE,
                             Some(RecipeResponse(outcome.value[1])), None))]

\* The for loop over the uploaded files; it ends at the first exception.
RECURSIVE IngestLoop(_, _, _, _, _)
IngestLoop(files, outcomes, i, resp, calls) ==
    IF i > Len(files)
    THEN [raised |-> FALSE, exc |-> None, resp |-> resp, calls |-> calls]
    ELSE LET one == IngestOne(files[i], outcomes[i]) IN
         IF one.raised
         THEN [raised |-> TRUE, exc |-> one.exc, resp |-> resp,
               calls |-> calls \o one.calls]
         ELSE IngestLoop(files, outcomes, i + 1, Append(resp, one.entry[1]),
                         calls \o one.calls)

\* The response of POST /ingest-recipes: the try block, its except clause and
\* the return after it.
IngestRecipesResponse(run) ==
    IF run.raised
    THEN [status |-> HTTP_500_INTERNAL_SERVER_ERROR,
          detail |-> Some(recipe_ingestion_error), body |-> None]
    ELSE [status |-> HTTP_200_OK, detail |-> None,
          body |-> Some([recipes |-> run.resp])]

\* POST /ingest-recipes
ingest_recipes(files, outcomes) ==
    LET run == IngestLoop(files, outcomes, 1, <<>>, <<>>) IN
    /\ apiReq = NoRequest
    /\ apiReq' = [endpoint |-> "ingest-recipes", files |-> files,
                  outcomes |-> outcomes]
    /\ apiResp' = IngestRecipesResponse(run)
    /\ apiCalls' = run.calls
    /\ apiLog' = IF run.raised
                 THEN <<[level |-> "error", text |-> "Error ingesting recipes",
                         exc |-> run.exc[1]]>>
                 ELSE <<>>
    /\ UNCHANGED <<bootVars, parseVars, svcVars, lifeVars>>

\* The response of POST /recommend-recipe for what the service call did.
RecommendRecipeResponse(outcome) ==
    IF outcome.kind = "raise"
    THEN [status |-> HTTP_500_INTERNAL_SERVER_ERROR,
          detail |-> Some(recipe_recommendation_error), body |-> None]
    ELSE [status |-> HTTP_200_OK, detail |-> None,
          body |-> Some([recipe |-> outcome.value])]

\* POST /recommend-recipe
recommend_recipe_route(ingredients, outcome) ==
    /\ apiReq = NoRequest
    /\ apiReq' = [endpoint |-> "recommend-recipe", ingredients |-> ingredients,
                  outcome |-> outcome]
    /\ apiResp' = RecommendRecipeResponse(outcome)
    /\ apiCalls' = <<[fn |-> "recommend_recipe", arg |-> ingredients]>>
    /\ apiLog' = IF outcome.kind = "raise"
                 THEN <<[level |-> "error", text |-> "Error recommending recipe",
                         exc |-> outcome.exc[1]]>>
                 ELSE <<>>
    /\ UNCHANGED <<bootVars, parseVars, svcVars, lifeVars>>

\* `not image.content_type or not image.content_type.startswith(prefix)`
InvalidContentType(content_type) ==
    \/ content_type = None
    \/ content_type[1] = <<>>
    \/ ~IsPrefix(IMAGE_CONTENT_TYPE_PREFIX, content_type[1])

\* The try block of POST /recommend-recipe-from-image: the exception it
\* raises, if any, the calls it made and the value it got.
ImageTry(content_type, image_data, outcome) ==
    IF InvalidContentType(content_type)
    THEN [raised |-> TRUE,
          exc |-> Some(HTTPException(HTTP_400_BAD_REQUEST,
                       "Invalid file type. Please upload an image file.")),
          calls |-> <<>>, value |-> None]
    ELSE LET calls == <<[fn |-> "recommend_recipe_from_image",
                         arg |-> image_data]>> IN
         IF outcome.kind = "raise"
         THEN [raised |-> TRUE, exc |-> outcome.exc, calls |-> calls,
               value |-> None]
         ELSE [raised |-> FALSE, exc |-> None, calls |-> calls,
               value |-> Some(outcome.value)]

\* The except clause and the return after the try block.
ImageResponse(try) ==
    IF try.raised
    THEN [status |-> HTTP_400_BAD_REQUEST,
          detail |-> Some("Failed to read the uploaded image file."),
          body |-> None]
    ELSE [status |-> HTTP_200_OK, detail |-> None,
          body |-> Some([detected_ingredients |-> try.value[1][1],
                         recipe |-> try.value[1][2]])]

\* POST /recommend-recipe-from-image
recommend_recipe_from_image_route(content_type, image_data, outcome) ==
    LET try == ImageTry(content_type, image_data, outcome) IN
    /\ apiReq = NoRequest
    /\ apiReq' = [endpoint |-> "recommend-recipe-from-image",
                  content_type |-> content_type, image_data |-> image_data,
                  outcome |-> outcome]
    /\ apiResp' = ImageResponse(try)
    /\ apiCalls' = try.calls
    /\ apiLog' = IF try.raised
                 THEN <<[level |-> "error", text |-> "Error reading image",
                         exc |-> try.exc[1]]>>
                 ELSE <<>>
    /\ UNCHANGED <<bootVars, parseVars, svcVars, lifeVars>>

----------------------------------------------------------------------------
(* The requests of the route layer *)

\* The most files in one upload.
MaxFiles == 2

\* Uploaded file contents: "A", "e-acute" (two bytes), "A\nB", a file that
\* starts with the invalid byte 0xFF, and a file cut inside a two-byte
\* sequence.
FileContents ==
    {<<65>>, <<195, 169>>, <<65, 10, 66>>, <<255, 65>>, <<65, 195>>}

Returns(v) == [kind |-> "return", value |-> v, exc |-> None]
Raises(e) == [kind |-> "raise", value |-> None, exc |-> Some(e)]

\* The recipes the stubbed ingest_recipe returns.
StubRecipes ==
    {[id |-> 1, title |-> "Recipe 1", ingredients |-> "Ingredient 1",
      instructions |-> "Step 1", created_at |-> Some(1), updated_at |-> None],
     [id |-> 2, title |-> "Recipe 2", ingredients |-> "Ingredient 2",
      instructions |-> "Step 2", created_at |-> Some(2), updated_at |-> Some(3)]}

\* What a call of ingest_recipe may do: return a Recipe, return None, raise.
IngestOutcomes ==
    {Returns(Some(r)) : r \in StubRecipes}
    \cup {Returns(None),
          Raises(Exc("Exception", "Service error")),
          Raises(Exc("UnicodeDecodeError", "invalid start byte"))}

IngredientLists == {<<>>, <<"tomatoes">>, <<"tomatoes", "basil">>}

\* What a call of recommend_recipe may do.  An empty list is always refused
\* with ValueError("Ingredients cannot be empty").
RecommendOutcomes(ingredients) ==
    IF ingredients = <<>>
    THEN {Raises(Exc("ValueError", "Ingredients cannot be empty"))}
    ELSE {Returns("Caprese Salad"),
          Raises(Exc("ValueError", "Failed to generate embedding for ingredients")),
          Raises(Exc("Exception", "Service error"))}

\* Content types: none, "", "image", "text/plain", "image/png", "image/jpeg".
ContentTypes ==
    {None, Some(<<>>), Some(<<"i", "m", "a", "g", "e">>),
     Some(<<"t", "e", "x", "t", "/", "p", "l", "a", "i", "n">>),
     Some(<<"i", "m", "a", "g", "e", "/", "p", "n", "g">>),
     Some(<<"i", "m", "a", "g", "e", "/", "j", "p", "e", "g">>)}

ImageDatas == {<<137, 80>>, <<255, 216>>, <<0>>}

\* What a call of recommend_recipe_from_image may do.
ImageOutcomes ==
    {Returns(<<<<"carrots", "onions">>, "Vegetable Soup">>),
     Raises(Exc("ValueError", "Invalid image format")),
     Raises(Exc("ValueError", "No ingredients could be detected in the image")),
     Raises(Exc("Exception", "Service error"))}

BootIdle ==
    /\ bootPc = "idle"
    /\ bootArgs = None
    /\ bootLocals = None
    /\ bootTrace = None

ApiIdle ==
    /\ apiReq = NoRequest
    /\ apiResp = None
    /\ apiCalls = <<>>
    /\ apiLog = <<>>

\* The framework sends the response; the handler's request is over and the
\* next one can be answered.
send_response ==
    /\ apiReq # NoRequest
    /\ apiReq' = NoRequest
    /\ apiResp' = None
    /\ apiCalls' = <<>>
    /\ apiLog' = <<>>
    /\ UNCHANGED <<bootVars, parseVars, svcVars, lifeVars>>

ParseIdle ==
    /\ parseContent = None
    /\ parseResult = None

\* An empty recipes table and no call in progress.
SvcIdle ==
    /\ store = <<>>
    /\ svcOp = None
    /\ svcCalls = <<>>
    /\ svcResult = None

LifeIdle ==
    /\ lifePc = "idle"
    /\ life = None

InitApi == ApiIdle /\ BootIdle /\ ParseIdle /\ SvcIdle /\ LifeIdle

\* A client uploads one to MaxFiles files.
post_ingest_recipes ==
    /\ apiReq = NoRequest
    /\ \E n \in 1..MaxFiles :
           \E files \in [1..n -> FileContents],
              outcomes \in [1..n -> IngestOutcomes] :
               ingest_recipes(files, outcomes)

\* A client posts a list of ingredients.
post_recommend_recipe ==
    /\ apiReq = NoRequest
    /\ \E ingredients \in IngredientLists :
           \E outcome \in RecommendOutcomes(ingredients) :
               recommend_recipe_route(ingredients, outcome)

\* A client uploads a file as an image.
post_recommend_recipe_from_image ==
    /\ apiReq = NoRequest
    /\ \E content_type \in ContentTypes, image_data \in ImageDatas,
          outcome \in ImageOutcomes :
           recommend_recipe_from_image_route(content_type, image_data, outcome)

NextApi ==
    \/ post_ingest_recipes
    \/ post_recommend_recipe
    \/ post_recommend_recipe_from_image
    \/ send_response

SpecApi == InitApi /\ [][NextApi]_vars

----------------------------------------------------------------------------
(* Properties of the route layer *)

\* str.encode("utf-8") on code points below 2048, the inverse of the decoder.
RECURSIVE Utf8Encode(_)
Utf8Encode(text) ==
    IF text = <<>> THEN <<>>
    ELSE LET cp == Head(text) IN
         (IF cp < 128 THEN <<cp>> ELSE <<192 + (cp \div 64), 128 + (cp % 64)>>)
         \o Utf8Encode(Tail(text))

IsIngestRequest == apiReq.endpoint = "ingest-recipes"

\* Processing file i of the request raises: its bytes are not valid UTF-8, or
\* the service raises when called for it.
FileRaises(i) ==
    \/ ~Utf8Decode(apiReq.files[i]).ok
    \/ apiReq.outcomes[i].kind = "raise"

\* The message of the exception file i raises.
FileExcMsg(i) ==
    IF ~Utf8Decode(apiReq.files[i]).ok
    THEN Utf8Decode(apiReq.files[i]).exc[1].msg
    ELSE apiReq.outcomes[i].exc[1].msg

\* C1 (as claimed): when processing an uploaded file raises, POST
\* /ingest-recipes still answers 200, and the response holds for that file an
\* entry with success=false, recipe=null and error = the exception's message.
C1_FileErrorIsReportedPerFile ==
    IsIngestRequest =>
        \A i \in DOMAIN apiReq.files :
            FileRaises(i) =>
                /\ apiResp.status = 200
                /\ apiResp.body # None
                /\ Len(apiResp.body[1].recipes) >= i
                /\ apiResp.body[1].recipes[i] =
                       [success |-> FALSE, recipe |-> None,
                        error |-> Some(FileExcMsg(i))]

\* Every file of the request decodes and the service returns a recipe for it.
AllIngested ==
    /\ IsIngestRequest
    /\ \A i \in DOMAIN apiReq.files :
           /\ Utf8Decode(apiReq.files[i]).ok
           /\ apiReq.outcomes[i].kind = "return"
           /\ apiReq.outcomes[i].value # None

\* C2: n files that all ingest successfully give 200 with exactly n entries;
\* ingest_recipe is called once per file, in upload order, with the text whose
\* UTF-8 encoding is the file, and entry i carries the recipe call i returned.
C2_AllFilesIngestedInOrder ==
    AllIngested =>
        LET n == Len(apiReq.files) IN
        /\ apiResp.status = 200
        /\ apiResp.body # None
        /\ Len(apiResp.body[1].recipes) = n
        /\ Len(apiCalls) = n
        /\ \A i \in 1..n :
               LET entry == apiResp.body[1].recipes[i]
                   returned == apiReq.outcomes[i].value[1] IN
               /\ apiCalls[i].fn = "ingest_recipe"
               /\ Utf8Encode(apiCalls[i].arg) = apiReq.files[i]
               /\ entry.success = TRUE
               /\ entry.error = None
               /\ entry.recipe # None
               /\ entry.recipe[1].id = returned.id
               /\ entry.recipe[1].title = returned.title
               /\ entry.recipe[1].ingredients = returned.ingredients
               /\ entry.recipe[1].instructions = returned.instructions

\* Two files, the first with a two-byte character, ingested as two different
\* recipes.
C2_Witness ==
    /\ AllIngested
    /\ Len(apiReq.files) = 2
    /\ apiReq.files[1] = <<195, 169>>
    /\ apiReq.outcomes[1].value[1].id = 2
    /\ apiReq.outcomes[2].value[1].id = 1
    /\ apiResp.status = 200
    /\ Len(apiCalls) = 2

\* C16: in every POST /ingest-recipes response each entry has success=true iff
\* recipe is non-null iff error is null; a file for which ingest_recipe returns
\* None gives success=false, recipe=null, error=settings.recipe_ingestion_error,
\* and the loop goes on to the files after it.
C16_EntriesAreConsistent ==
    IsIngestRequest =>
        LET n == Len(apiReq.files) IN
        /\ apiResp.body # None =>
              LET entries == apiResp.body[1].recipes IN
              /\ Len(entries) = n
              /\ Len(apiCalls) = n
              /\ \A i \in 1..n :
                    /\ entries[i].success = TRUE <=> entries[i].recipe # None
                    /\ entries[i].recipe # None <=> entries[i].error = None
                    /\ apiReq.outcomes[i] = Returns(None) =>
                          /\ entries[i].success = FALSE
                          /\ entries[i].recipe = None
                          /\ entries[i].error = Some(recipe_ingestion_error)
        /\ \A i \in 1..(n - 1) :
              (/\ Len(apiCalls) >= i
               /\ apiReq.outcomes[i] = Returns(None)
               /\ Utf8Decode(apiReq.files[i + 1]).ok)
              => /\ Len(apiCalls) >= i + 1
                 /\ Utf8Encode(apiCalls[i + 1].arg) = apiReq.files[i + 1]

\* Two files, the first of which ingest_recipe returned None for, and the
\* second ingested.
C16_Witness ==
    /\ IsIngestRequest
    /\ Len(apiReq.files) = 2
    /\ apiReq.outcomes[1] = Returns(None)
    /\ apiResp.body # None
    /\ apiResp.body[1].recipes[1].success = FALSE
    /\ apiResp.body[1].recipes[2].success = TRUE
    /\ Len(apiCalls) = 2

IsRecommendRequest == apiReq.endpoint = "recommend-recipe"

IsImageRequest == apiReq.endpoint = "recommend-recipe-from-image"

\* C3 (as claimed): when the service raises ValueError("Ingredients cannot be
\* empty"), POST /recommend-recipe answers 400 with exactly that detail.
C3_EmptyIngredientsIs400 ==
    (/\ IsRecommendRequest
     /\ apiReq.outcome.kind = "raise"
     /\ apiReq.outcome.exc[1] = Exc("ValueError", "Ingredients cannot be empty"))
    => /\ apiResp.status = 400
       /\ apiResp.detail = Some("Ingredients cannot be empty")

\* The service raised an exception that is not a validation error.
ServiceRaisedUnexpected ==
    /\ apiReq.outcome.kind = "raise"
    /\ apiReq.outcome.exc[1].type = "Exception"

\* C4 (as claimed): on /recommend-recipe and on /recommend-recipe-from-image
\* (with an image/* content type), an exception of the service that is not a
\* validation error gives 500 with the fixed "unexpected error" detail.
C4_UnexpectedErrorIs500 ==
    (\/ IsRecommendRequest /\ ServiceRaisedUnexpected
     \/ /\ IsImageRequest
        /\ ~InvalidContentType(apiReq.content_type)
        /\ ServiceRaisedUnexpected)
    => /\ apiResp.status = 500
       /\ apiResp.detail =
              Some("An unexpected error occurred while processing your request. Please try again later.")

\* C5 (as claimed): a file with no content type, or one that does not start
\* with "image/", gives 400 with the detail "Invalid file type. Please upload
\* an image file." and recommend_recipe_from_image is not called.  (Every
\* detail of the model is one fixed message, none part of another, so
\* "contains" is equality.)
C5_InvalidFileTypeIs400 ==
    (IsImageRequest /\ InvalidContentType(apiReq.content_type))
    => /\ apiResp.status = 400
       /\ apiResp.detail = Some("Invalid file type. Please upload an image file.")
       /\ apiCalls = <<>>

----------------------------------------------------------------------------
(* DatabaseManager.bootstrap (src/data/database.py), step by step.  Each    *)
(* connection attempt ends in one of three ways: engine.connect() raises,  *)
(* connect() returns and enabling the vector extension raises, or both     *)
(* succeed.                                                                *)

database_max_retries == 5
database_retry_delay == 2

\* The largest max_retries and retry_delay a caller passes explicitly.
MaxRetriesArg == 2
MaxDelayArg == 1

\* Python's `x or default` on Optional[int]: None and 0 are falsy.
PyOr(x, default) == IF x = None \/ x[1] = 0 THEN default ELSE x[1]

AttemptResults == {"connect_failed", "extension_failed", "connected"}

\* Sleeps after every failed attempt, the last one included.
SleepsAfterEveryFailure(i, max_retries) == i < max_retries

\* `if i < max_retries - 1` : a failed attempt is followed by a sleep.
SleepsAfterFailure(i, max_retries) == i < max_retries - 1

\* bootstrap(max_retries, retry_delay) is called: lines 69-72.
bootstrap_call(max_retries, retry_delay) ==
    /\ bootPc = "idle"
    /\ bootArgs' = Some([max_retries |-> max_retries, retry_delay |-> retry_delay])
    /\ bootLocals' = Some([max_retries |-> PyOr(max_retries, database_max_retries),
                           retry_delay |-> PyOr(retry_delay, database_retry_delay),
                           i |-> 0,
                           connection |-> None])
    /\ bootTrace' = Some([events |-> <<>>, tables |-> FALSE, closed |-> FALSE,
                          raised |-> None])
    /\ bootPc' = "for"
    /\ UNCHANGED <<apiVars, parseVars, svcVars, lifeVars>>

\* One pass of the loop body: lines 75-84.  connect() binds `connection` before
\* the extension is enabled, so a failure of the extension leaves it bound.
boot_attempt(result) ==
    LET l == bootLocals[1] IN
    /\ bootPc = "for"
    /\ l.i < l.max_retries
    /\ bootTrace' = Some([bootTrace[1] EXCEPT
           !.events = Append(@, [ev |-> "attempt", result |-> result])])
    /\ bootLocals' = Some([l EXCEPT
           !.connection = IF result = "connect_failed" THEN @ ELSE Some(l.i + 1),
           !.i = IF result # "connected" /\ ~SleepsAfterFailure(l.i, l.max_retries)
                 THEN @ + 1 ELSE @])
    /\ bootPc' = IF result = "connected" THEN "after_for"
                 ELSE IF SleepsAfterFailure(l.i, l.max_retries) THEN "sleep"
                 ELSE "for"
    /\ UNCHANGED <<bootArgs, apiVars, parseVars, svcVars, lifeVars>>

\* time.sleep(retry_delay), line 85, and the next value of i.
boot_sleep ==
    LET l == bootLocals[1] IN
    /\ bootPc = "sleep"
    /\ bootTrace' = Some([bootTrace[1] EXCEPT
           !.events = Append(@, [ev |-> "sleep", seconds |-> l.retry_delay])])
    /\ bootLocals' = Some([l EXCEPT !.i = @ + 1])
    /\ bootPc' = "for"
    /\ UNCHANGED <<bootArgs, apiVars, parseVars, svcVars, lifeVars>>

\* range(max_retries) is exhausted.
boot_for_end ==
    /\ bootPc = "for"
    /\ bootLocals[1].i >= bootLocals[1].max_retries
    /\ bootPc' = "after_for"
    /\ UNCHANGED <<bootArgs, bootLocals, bootTrace, apiVars, parseVars, svcVars, lifeVars>>

\* Lines 87-93: raise when no connection is bound, else create the tables and
\* close the connection.  Base.metadata.create_all may itself raise, and then
\* neither the tables exist nor is the connection closed.
boot_finish(tables_created) ==
    /\ bootPc = "after_for"
    /\ IF bootLocals[1].connection = None
       THEN /\ bootTrace' = Some([bootTrace[1] EXCEPT
                   !.raised = Some(Exc("Exception",
                                       "Failed to connect to the database"))])
            /\ bootPc' = "raised"
       ELSE IF tables_created
       THEN /\ bootTrace' = Some([bootTrace[1] EXCEPT
                   !.tables = TRUE, !.closed = TRUE])
            /\ bootPc' = "done"
       ELSE /\ bootTrace' = Some([bootTrace[1] EXCEPT
                   !.raised = Some(Exc("Exception", "create_all failed"))])
            /\ bootPc' = "raised"
    /\ UNCHANGED <<bootArgs, bootLocals, apiVars, parseVars, svcVars, lifeVars>>

RetriesArgs == {None} \cup {Some(k) : k \in 0..MaxRetriesArg}
DelayArgs == {None} \cup {Some(d) : d \in 0..MaxDelayArg}

InitBoot == BootIdle /\ ApiIdle /\ ParseIdle /\ SvcIdle /\ LifeIdle

NextBoot ==
    \/ \E max_retries \in RetriesArgs, retry_delay \in DelayArgs :
           bootstrap_call(max_retries, retry_delay)
    \/ \E result \in AttemptResults : boot_attempt(result)
    \/ boot_sleep
    \/ boot_for_end
    \/ \E tables_created \in BOOLEAN : boot_finish(tables_created)

SpecBoot == InitBoot /\ [][NextBoot]_vars

\* A running Python thread takes its next step.
SpecBootFair == SpecBoot /\ WF_vars(NextBoot)

----------------------------------------------------------------------------
(* Properties of bootstrap *)

BootStarted == bootPc # "idle"

BootEvents == bootTrace[1].events

BootAttempts == {k \in DOMAIN BootEvents : BootEvents[k].ev = "attempt"}

BootSleeps == {k \in DOMAIN BootEvents : BootEvents[k].ev = "sleep"}

BootTerminated == bootPc \in {"done", "raised"}

\* The safety part of C9, N and retry_delay being the values bootstrap works
\* with (lines 71-72).
C9_Safety ==
    BootStarted =>
        LET l == bootLocals[1]
            E == BootEvents IN
        \* at most N attempts
        /\ Cardinality(BootAttempts) <= l.max_retries
        \* nothing is attempted after the first attempt that succeeds
        /\ \A k \in BootAttempts : E[k].result = "connected" => k = Len(E)
        \* two consecutive attempts have a wait of retry_delay between them
        /\ \A k \in BootAttempts :
               k > 1 => /\ E[k - 1].ev = "sleep"
                        /\ E[k - 1].seconds = l.retry_delay
        \* a wait follows a failed attempt, and never the N-th one
        /\ \A k \in BootSleeps :
               /\ k > 1
               /\ E[k - 1].ev = "attempt"
               /\ E[k - 1].result # "connected"
               /\ Cardinality({j \in BootAttempts : j < k}) < l.max_retries
        \* when all N attempts fail to connect, bootstrap raises
        /\ (/\ BootTerminated
            /\ Cardinality(BootAttempts) = l.max_retries
            /\ \A k \in BootAttempts : E[k].result = "connect_failed")
           => /\ bootPc = "raised"
              /\ bootTrace[1].raised # None
              /\ ~bootTrace[1].tables

\* C9: bootstrap makes at most N = max_retries connection attempts, stops
\* after the first that succeeds, waits retry_delay between two consecutive
\* attempts and not after the N-th failed one, raises when all N attempts fail
\* to connect, and always terminates.
C9_BootstrapRetriesAndTerminates == []C9_Safety /\ <>BootTerminated

\* bootstrap() with the settings' values: five failed attempts, four waits of
\* two seconds, and the exception.
C9_Witness ==
    /\ bootPc = "raised"
    /\ bootArgs = Some([max_retries |-> None, retry_delay |-> None])
    /\ Cardinality(BootAttempts) = 5
    /\ Cardinality(BootSleeps) = 4
    /\ \A k \in BootSleeps : BootEvents[k].seconds = 2
    /\ BootEvents[Len(BootEvents)].ev = "attempt"

\* An attempt has both connected and enabled the vector extension.
SomeAttemptCompleted ==
    \E k \in BootAttempts : BootEvents[k].result = "connected"

\* C14: bootstrap creates the tables only after an attempt in which both
\* connecting and enabling the vector extension succeeded; if no attempt
\* completes both steps, bootstrap raises and no table is created.
C14_TablesOnlyAfterACompleteAttempt ==
    BootStarted =>
        /\ bootTrace[1].tables => SomeAttemptCompleted
        /\ BootTerminated /\ ~SomeAttemptCompleted =>
              /\ bootPc = "raised"
              /\ ~bootTrace[1].tables

\* C21: bootstrap(max_retries=k) with an explicitly passed k >= 0 never makes
\* more than k connection attempts.
C21_AtMostTheAttemptsPassed ==
    (BootStarted /\ bootArgs[1].max_retries # None) =>
        Cardinality(BootAttempts) <= bootArgs[1].max_retries[1]

----------------------------------------------------------------------------
(* IngestionService.parse_content (src/core/ingestion_service.py).          *)
(*                                                                         *)
(* A text is a sequence of characters.  The words "Ingredients:" and       *)
(* "Instructions:" are one character each, in the spellings below (no part *)
(* of such a word can start another one, so nothing is lost); LowerChar is *)
(* str.lower() and the case folding of re.IGNORECASE on them.              *)

NL == "\n"

IsSpace(c) == c \in {" ", NL}

LowerChar(c) ==
    CASE c \in {"Ingredients:", "INGREDIENTS:", "ingredients:"} -> "ingredients:"
      [] c \in {"Instructions:", "INSTRUCTIONS:", "instructions:"} -> "instructions:"
      [] OTHER -> c

RECIPE_SECTIONS ==
    [INGREDIENTS |-> "ingredients:", INSTRUCTIONS |-> "instructions:"]

\* str.strip()
Strip(s) ==
    LET keep == {k \in DOMAIN s : ~IsSpace(s[k])} IN
    IF keep = {} THEN <<>>
    ELSE SubSeq(s, CHOOSE k \in keep : \A j \in keep : k <= j,
                   CHOOSE k \in keep : \A j \in keep : k >= j)

\* str.split("\n"): the pieces between the newlines, empty ones included.
RECURSIVE SplitLines(_)
SplitLines(s) ==
    LET nls == {k \in DOMAIN s : s[k] = NL} IN
    IF nls = {} THEN <<s>>
    ELSE LET k == CHOOSE x \in nls : \A y \in nls : x <= y IN
         <<SubSeq(s, 1, k - 1)>> \o SplitLines(SubSeq(s, k + 1, Len(s)))

\* "\n".join(lines)
RECURSIVE JoinLines(_)
JoinLines(lines) ==
    IF lines = <<>> THEN <<>>
    ELSE IF Len(lines) = 1 THEN lines[1]
    ELSE lines[1] \o <<NL>> \o JoinLines(Tail(lines))

\* The lines of a text as they are, blank ones included.
UnstrippedLines(s) == SplitLines(s)

\* The stripped lines of a text that are not empty, in order.
StrippedLines(s) ==
    LET lines == SplitLines(s) IN
    SelectSeq([n \in DOMAIN lines |-> Strip(lines[n])], LAMBDA line : line # <<>>)

\* line.lower().startswith(("ingredients:", "instructions:"))
StartsWithSection(line) ==
    /\ line # <<>>
    /\ LowerChar(line[1]) \in {RECIPE_SECTIONS.INGREDIENTS, RECIPE_SECTIONS.INSTRUCTIONS}

\* _extract_title: the first stripped line that is not empty and does not
\* start with a section word.
extract_title(content) ==
    LET lines == SelectSeq(StrippedLines(content),
                           LAMBDA line : ~StartsWithSection(line)) IN
    IF lines = <<>> THEN None ELSE Some(lines[1])

\* `$` without re.MULTILINE: at the end of the text, or before its last
\* character when that is a newline.
AtDollar(s, e) == e = Len(s) \/ (e = Len(s) - 1 /\ s[Len(s)] = NL)

\* `word\s*\n` matched at position p: where the match ends, 0 when there is no
\* match.  \s* is greedy and what follows in both patterns can match anywhere,
\* so the \n is the last newline of the whitespace that follows the word.
HeaderMatchEnd(s, p, word) ==
    IF LowerChar(s[p]) # word THEN 0
    ELSE LET run == {q \in p..Len(s) : \A k \in (p + 1)..q : IsSpace(s[k])}
             nls == {q \in run : q > p /\ s[q] = NL} IN
         IF nls = {} THEN 0 ELSE CHOOSE q \in nls : \A r \in nls : r <= q

\* re.search: the leftmost position at which `word\s*\n` matches, 0 if none.
HeaderSearch(s, word) ==
    LET hits == {p \in DOMAIN s : HeaderMatchEnd(s, p, word) # 0} IN
    IF hits = {} THEN 0 ELSE CHOOSE p \in hits : \A q \in hits : p <= q

\* The lookahead `\n\s*Instructions:` holds after position e.
InstructionsAhead(s, e) ==
    /\ e + 1 <= Len(s)
    /\ s[e + 1] = NL
    /\ \E q \in (e + 2)..Len(s) :
           /\ LowerChar(s[q]) = "instructions:"
           /\ \A k \in (e + 2)..(q - 1) : IsSpace(s[k])

\* The cleaning both extractors apply to group(1).
CleanSection(text) == JoinLines(StrippedLines(Strip(text)))

\* _extract_ingredients: r"Ingredients:\s*\n(.*?)(?=\n\s*Instructions:|$)"
\* with DOTALL and IGNORECASE; the lazy group ends at the first position
\* where the lookahead holds.
extract_ingredients(content) ==
    LET p == HeaderSearch(content, "ingredients:") IN
    IF p = 0 THEN None
    ELSE LET g == HeaderMatchEnd(content, p, "ingredients:")
             ends == {e \in g..Len(content) :
                         InstructionsAhead(content, e) \/ AtDollar(content, e)}
             e == CHOOSE x \in ends : \A y \in ends : x <= y
         IN Some(CleanSection(SubSeq(content, g + 1, e)))

\* _extract_instructions: r"Instructions:\s*\n(.*?)$" with DOTALL and
\* IGNORECASE.
extract_instructions(content) ==
    LET p == HeaderSearch(content, "instructions:") IN
    IF p = 0 THEN None
    ELSE LET g == HeaderMatchEnd(content, p, "instructions:")
             ends == {e \in g..Len(content) : AtDollar(content, e)}
             e == CHOOSE x \in ends : \A y \in ends : x <= y
         IN Some(CleanSection(SubSeq(content, g + 1, e)))

\* `not x` for an Optional[str]: None and "" are falsy.
Falsy(x) == x = None \/ x[1] = <<>>

\* parse_content: None, or the Recipe(title, ingredients, instructions).
parse_content(raw) ==
    LET content == Strip(raw)
        title == extract_title(content)
        ingredients == extract_ingredients(content)
        instructions == extract_instructions(content)
    IN IF Falsy(title) THEN None
       ELSE IF Falsy(ingredients) THEN None
       ELSE IF Falsy(instructions) THEN None
       ELSE Some([title |-> title[1], ingredients |-> ingredients[1],
                  instructions |-> instructions[1]])

----------------------------------------------------------------------------
(* parse_content on bounded inputs *)

\* The most lines of a content.
MaxLines == 5

\* The lines a content is made of: text, text with surrounding blanks, an
\* empty line, the two section headers (one in upper case with a trailing
\* blank), a text line that ends in a section word and one that starts with
\* a section word.
ParseLines ==
    {<<"a">>, <<" ", "b", " ">>, <<>>, <<"Ingredients:">>, <<"INSTRUCTIONS:", " ">>,
     <<"a", " ", "instructions:">>, <<"ingredients:", " ", "a">>}

\* parse_content(content) is called.
parse_content_call(lines) ==
    /\ parseContent = None
    /\ parseContent' = Some([lines |-> lines, text |-> JoinLines(lines)])
    /\ parseResult' = parse_content(JoinLines(lines))
    /\ UNCHANGED <<apiVars, bootVars, svcVars, lifeVars>>

\* The caller has taken the result.
parse_content_return ==
    /\ parseContent # None
    /\ parseContent' = None
    /\ parseResult' = None
    /\ UNCHANGED <<apiVars, bootVars, svcVars, lifeVars>>

InitParse == ParseIdle /\ ApiIdle /\ BootIdle /\ SvcIdle /\ LifeIdle

\* A caller passes some content of at most MaxLines lines.
call_parse_content ==
    /\ parseContent = None
    /\ \E n \in 0..MaxLines : \E lines \in [1..n -> ParseLines] :
           parse_content_call(lines)

NextParse ==
    \/ call_parse_content
    \/ parse_content_return

SpecParse == InitParse /\ [][NextParse]_vars

----------------------------------------------------------------------------
(* Properties of parse_content *)

\* A line without its leading and trailing blanks (the lines hold no newline).
RECURSIVE DropBlanks(_)
DropBlanks(line) ==
    IF line = <<>> THEN <<>>
    ELSE IF Head(line) = " " THEN DropBlanks(Tail(line))
    ELSE IF line[Len(line)] = " " THEN DropBlanks(SubSeq(line, 1, Len(line) - 1))
    ELSE line

\* The lines of the content that are not blank, stripped.
NonBlankLines(lines) ==
    SelectSeq([n \in DOMAIN lines |-> DropBlanks(lines[n])],
              LAMBDA line : line # <<>>)

IsIngredientsHeader(line) ==
    line \in {<<"Ingredients:">>, <<"INGREDIENTS:">>, <<"ingredients:">>}

IsInstructionsHeader(line) ==
    line \in {<<"Instructions:">>, <<"INSTRUCTIONS:">>, <<"instructions:">>}

IsHeader(line) == IsIngredientsHeader(line) \/ IsInstructionsHeader(line)

\* Where the Instructions header stands when the non-blank lines are: a title,
\* the Ingredients header, one or more ingredient lines, the Instructions
\* header, one or more instruction lines; 0 when they are not of that shape.
InstructionsHeaderOfShape(nb) ==
    LET js == {j \in 4..(Len(nb) - 1) :
                  /\ IsIngredientsHeader(nb[2])
                  /\ IsInstructionsHeader(nb[j])
                  /\ \A k \in DOMAIN nb : k \notin {2, j} => ~IsHeader(nb[k])}
    IN IF js = {} THEN 0 ELSE CHOOSE j \in js : TRUE

\* The same lines joined by "\n", written without JoinLines.
RECURSIVE JoinedFrom(_)
JoinedFrom(lines) ==
    IF Len(lines) = 0 THEN <<>>
    ELSE IF Len(lines) = 1 THEN lines[1]
    ELSE JoinedFrom(SubSeq(lines, 1, Len(lines) - 1)) \o <<"\n">> \o lines[Len(lines)]

\* C7 (as claimed): for content of the shape title / "Ingredients:" / one or
\* more ingredient lines / "Instructions:" / one or more instruction lines
\* (blank lines and surrounding blanks anywhere, headers in any case),
\* parse_content returns the first non-blank line stripped as the title, the
\* stripped non-blank lines between the headers joined by "\n" as the
\* ingredients, and those after the Instructions header as the instructions.
C7_ParsesTheThreeSections ==
    parseContent # None =>
        LET nb == NonBlankLines(parseContent[1].lines)
            j == InstructionsHeaderOfShape(nb) IN
        j # 0 =>
            /\ parseResult # None
            /\ parseResult[1].title = nb[1]
            /\ parseResult[1].ingredients = JoinedFrom(SubSeq(nb, 3, j - 1))
            /\ parseResult[1].instructions = JoinedFrom(SubSeq(nb, j + 1, Len(nb)))

\* The first place from `from` on where a line satisfying Is(_) stands, or 0.
FirstHeader(nb, from, Is(_)) ==
    LET at == {k \in from..Len(nb) : Is(nb[k])} IN
    IF at = {} THEN 0 ELSE CHOOSE k \in at : \A j \in at : k <= j

\* The content has a title line, an Ingredients section with a non-blank line
\* and, after it, an Instructions section with a non-blank line.  A title line
\* is a non-blank line that does not start with a section word; a section
\* runs from the line after its header line to the next header line.
AllThreePartsPresent(nb) ==
    LET i == FirstHeader(nb, 1, IsIngredientsHeader)
        j == FirstHeader(nb, 1, IsInstructionsHeader)
        endI == FirstHeader(nb, i + 1, IsHeader)
        endJ == FirstHeader(nb, j + 1, IsHeader) IN
    /\ \E k \in DOMAIN nb : ~StartsWithSection(nb[k])
    /\ i # 0 /\ i < Len(nb) /\ endI # i + 1
    /\ j # 0 /\ j < Len(nb) /\ endJ # j + 1

\* C18: parse_content returns None whenever the content has no title line, no
\* Ingredients section or one without a non-blank line, or no Instructions
\* section or one without a non-blank line; it returns a recipe only when all
\* three parts are present and non-empty.
C18_NoneUnlessAllThreeParts ==
    (parseContent # None /\ parseResult # None) =>
        AllThreePartsPresent(NonBlankLines(parseContent[1].lines))

----------------------------------------------------------------------------
(* The service layer on the recipes table: Repository (src/data),           *)
(* IngestionService and RecommendationService (src/core).  The embedding   *)
(* service, the RAG pipeline and the database are the environment: a call  *)
(* on them returns or fails as the operation's inputs say.                 *)

default_search_limit == 5
recommendation_search_limit == 3

\* The exception a failing database call raises out of handle_session.
DatabaseError == Exc("Exception", "database error")

RECURSIVE Dot(_, _)
Dot(a, b) == IF a = <<>> \/ b = <<>> THEN 0
             ELSE Head(a) * Head(b) + Dot(Tail(a), Tail(b))

\* pgvector's `<=>`, the cosine distance 1 - a.q / (|a| |q|), compared without
\* roots: a is not farther from q than b is.  (No vector is all zeros.)
NotFarther(a, b, q) ==
    LET x == Dot(a, q)
        y == Dot(b, q)
        aa == Dot(a, a)
        bb == Dot(b, b) IN
    IF x >= 0 /\ y < 0 THEN TRUE
    ELSE IF x < 0 /\ y >= 0 THEN FALSE
    ELSE IF x >= 0 THEN x * x * bb >= y * y * aa
    ELSE x * x * bb <= y * y * aa

\* str(embedding): "[x, y, ...]", and the vector pgvector reads from it.
FormatVector(e) ==
    <<"[">> \o [k \in 1..(2 * Len(e) - 1) |->
                   IF k % 2 = 1 THEN e[(k + 1) \div 2] ELSE ","] \o <<"]">>

ParseVector(text) == [k \in 1..((Len(text) - 1) \div 2) |-> text[2 * k]]

\* ORDER BY embedding <=> :embedding over the rows in the order the scan
\* yields them: a row goes behind the rows that are not farther than it.
InsertByDistance(sorted, row, q) ==
    LET before == {k \in DOMAIN sorted :
                      \A j \in 1..k : NotFarther(sorted[j].embedding[1],
                                                 row.embedding[1], q)}
        n == Cardinality(before) IN
    SubSeq(sorted, 1, n) \o <<row>> \o SubSeq(sorted, n + 1, Len(sorted))

RECURSIVE SortByDistance(_, _)
SortByDistance(rows, q) ==
    IF rows = <<>> THEN <<>>
    ELSE InsertByDistance(SortByDistance(SubSeq(rows, 1, Len(rows) - 1), q),
                          rows[Len(rows)], q)

\* A SELECT without the WHERE clause and the ordering.
SelectUnfiltered(scanned, literal, limit) ==
    SubSeq(scanned, 1, IF limit < Len(scanned) THEN limit ELSE Len(scanned))

\* The SELECT of search_by_embedding on the rows as scanned:
\* WHERE embedding IS NOT NULL ORDER BY embedding <=> :embedding LIMIT :limit
SelectSimilar(scanned, literal, limit) ==
    LET eligible == SelectSeq(scanned, LAMBDA r : r.embedding # None)
        sorted == SortByDistance(eligible, ParseVector(literal)) IN
    SubSeq(sorted, 1, IF limit < Len(sorted) THEN limit ELSE Len(sorted))

\* `limit = limit or self.settings.default_search_limit`
EffectiveLimit(limit) == PyOr(limit, default_search_limit)

\* Repository.search_by_embedding on the rows as scanned: whether it queried,
\* and the recipes it returns.
SearchByEmbedding(scanned, embedding, limit) ==
    IF embedding = <<>>
    THEN [queried |-> FALSE, rows |-> <<>>]
    ELSE [queried |-> TRUE,
          rows |-> SelectSimilar(scanned, FormatVector(embedding),
                                 EffectiveLimit(limit))]

\* The rows of the table in the order `scan` (a permutation of their indices).
Scanned(scan) == [k \in DOMAIN scan |-> store[scan[k]]]

\* A lookup that finds no row.
RowsByTitleNone(title) == <<>>

\* Repository.exists_by_title / get_by_title: the first row with the title.
RowsByTitle(title) == SelectSeq(store, LAMBDA r : r.title = title)

\* The parsed recipe with the embedding set (ingest_recipe's assignment).
WithoutEmbedding(parsed, embedding) ==
    [title |-> parsed.title, ingredients |-> parsed.ingredients,
     instructions |-> parsed.instructions, embedding |-> None]

WithEmbedding(parsed, embedding) ==
    [title |-> parsed.title, ingredients |-> parsed.ingredients,
     instructions |-> parsed.instructions, embedding |-> embedding]

\* Repository.create: the row as inserted, with the id the table gives it.
CreatedRow(recipe) ==
    [id |-> Len(store) + 1, title |-> recipe.title,
     ingredients |-> recipe.ingredients, instructions |-> recipe.instructions,
     embedding |-> recipe.embedding]

Call(fn, arg, ret) == [fn |-> fn, arg |-> arg, ret |-> ret]

\* The text generate_recipe_embedding embeds.
CombinedText(r) ==
    <<"Title: ">> \o r.title \o <<NL, NL, "Ingredients:", NL>> \o r.ingredients
    \o <<NL, NL, "Instructions:", NL>> \o r.instructions

\* IngestionService.ingest_recipe after parse_content gave `parsed`: the calls
\* it makes, what it returns and the table after it.  `embedded` is what
\* generate_recipe_embedding returns (None when the embedder fails) and
\* `failing` the repository method that raises.
IngestRun(parsed, embedded, failing) ==
    IF parsed = None
    THEN [calls |-> <<>>, result |-> Returns(None), store |-> store]
    ELSE
    LET title == parsed[1].title
        found == RowsByTitle(title) IN
    IF failing = "exists_by_title"
    THEN [calls |-> <<Call("exists_by_title", title, Raises(DatabaseError))>>,
          result |-> Returns(None), store |-> store]
    ELSE IF found # <<>>
    THEN IF failing = "get_by_title"
         THEN [calls |-> <<Call("exists_by_title", title, Returns(TRUE)),
                           Call("get_by_title", title, Raises(DatabaseError))>>,
               result |-> Returns(None), store |-> store]
         ELSE [calls |-> <<Call("exists_by_title", title, Returns(TRUE)),
                           Call("get_by_title", title, Returns(Some(found[1])))>>,
               result |-> Returns(Some(found[1])), store |-> store]
    ELSE
    LET recipe == WithEmbedding(parsed[1], embedded)
        first == <<Call("exists_by_title", title, Returns(FALSE)),
                   Call("generate_recipe_embedding", CombinedText(parsed[1]),
                        Returns(embedded))>> IN
    IF failing = "create"
    THEN [calls |-> Append(first, Call("create", recipe, Raises(DatabaseError))),
          result |-> Returns(None), store |-> store]
    ELSE [calls |-> Append(first, Call("create", recipe,
                                       Returns(Some(CreatedRow(recipe))))),
          result |-> Returns(Some(CreatedRow(recipe))),
          store |-> Append(store, CreatedRow(recipe))]

\* ingest_recipe(content)
ingest_recipe(content, embedded, failing) ==
    \E run \in {IngestRun(parse_content(content), embedded, failing)} :
    /\ svcOp = None
    /\ svcOp' = Some([name |-> "ingest_recipe", content |-> content,
                      embedded |-> embedded, failing |-> failing])
    /\ svcCalls' = run.calls
    /\ svcResult' = Some(run.result)
    /\ store' = run.store
    /\ UNCHANGED <<apiVars, bootVars, parseVars, lifeVars>>

\* ", ".join(ingredients)
RECURSIVE JoinComma(_)
JoinComma(items) ==
    IF items = <<>> THEN <<>>
    ELSE IF Len(items) = 1 THEN <<items[1]>>
    ELSE <<items[1], ", ">> \o JoinComma(Tail(items))

\* The check that lets an empty list through.
EmbeddingMissingOnlyNone(embedding) == embedding = None

\* `not query_embedding`: None and the empty list.
EmbeddingMissing(embedding) == embedding = None \/ embedding[1] = <<>>

\* RecommendationService.recommend_recipe: the calls it makes and what it
\* returns or raises.  `embedded` is what generate_text_embedding returns,
\* `failing` the repository method that raises, `generated` what the RAG
\* pipeline does and `scan` the order in which the table is scanned.
RecommendRun(ingredients, embedded, failing, generated, scan) ==
    IF ingredients = <<>>
    THEN [calls |-> <<>>,
          result |-> Raises(Exc("ValueError", "Ingredients cannot be empty"))]
    ELSE
    LET text == JoinComma(ingredients)
        c1 == Call("generate_text_embedding", text, Returns(embedded)) IN
    IF EmbeddingMissing(embedded)
    THEN [calls |-> <<c1>>,
          result |-> Raises(Exc("ValueError",
                                "Failed to generate embedding for ingredients"))]
    ELSE
    LET args == [embedding |-> embedded[1], limit |-> recommendation_search_limit]
        found == SearchByEmbedding(Scanned(scan), embedded[1],
                                   Some(recommendation_search_limit)).rows IN
    IF failing = "search_by_embedding"
    THEN [calls |-> <<c1, Call("search_by_embedding", args, Raises(DatabaseError))>>,
          result |-> Raises(DatabaseError)]
    ELSE [calls |-> <<c1, Call("search_by_embedding", args, Returns(found)),
                      Call("generate_recommendation",
                           [recipes |-> found, ingredients |-> text], generated)>>,
          result |-> generated]

\* recommend_recipe(ingredients)
recommend_recipe(ingredients, embedded, failing, generated, scan) ==
    \E run \in {RecommendRun(ingredients, embedded, failing, generated, scan)} :
    /\ svcOp = None
    /\ svcOp' = Some([name |-> "recommend_recipe", ingredients |-> ingredients,
                      embedded |-> embedded, failing |-> failing,
                      generated |-> generated])
    /\ svcCalls' = run.calls
    /\ svcResult' = Some(run.result)
    /\ UNCHANGED <<store, apiVars, bootVars, parseVars, lifeVars>>

\* Repository.search_by_embedding(embedding, limit), called on its own.
search_by_embedding(embedding, limit, failing, scan) ==
    \E run \in {SearchByEmbedding(Scanned(scan), embedding, limit)} :
    /\ svcOp = None
    /\ svcOp' = Some([name |-> "search_by_embedding", embedding |-> embedding,
                      limit |-> limit, failing |-> failing])
    /\ svcCalls' = IF run.queried THEN <<Call("execute", FormatVector(embedding),
                                              IF failing = "search_by_embedding"
                                              THEN Raises(DatabaseError)
                                              ELSE Returns(run.rows))>>
                   ELSE <<>>
    /\ svcResult' = Some(IF run.queried /\ failing = "search_by_embedding"
                         THEN Raises(DatabaseError) ELSE Returns(run.rows))
    /\ UNCHANGED <<store, apiVars, bootVars, parseVars, lifeVars>>

\* The call is over; the table stays.
service_return ==
    /\ svcOp # None
    /\ svcOp' = None
    /\ svcCalls' = <<>>
    /\ svcResult' = None
    /\ UNCHANGED <<store, apiVars, bootVars, parseVars, lifeVars>>

----------------------------------------------------------------------------
(* The service layer, one call at a time, on a table that starts empty or  *)
(* holds the recipes loaded at startup.                                    *)

MaxLimitArg == 2

\* Recipe files: three recipes (two with the same title), and one with no
\* ingredients section.
RecipeContents ==
    { <<"a", NL, "Ingredients:", NL, "b", NL, "Instructions:", NL, "c">>,
      <<"a", NL, "Ingredients:", NL, "c", NL, "Instructions:", NL, "b">>,
      <<"b", NL, "Ingredients:", NL, "-", " ", "a", NL, "Instructions:", NL, "c">>,
      <<"a", NL, "Instructions:", NL, "c">> }

\* What the embedder gives for a recipe: nothing, or a vector.
RecipeEmbeddings == {None, Some(<<1, 0>>), Some(<<0, 1>>), Some(<<2, 0>>)}

\* What the embedder gives for a query: nothing, an empty list, or a vector.
TextEmbeddings == {None, Some(<<>>), Some(<<1, 0>>), Some(<<1, 2>>)}

SeedRow(id, title, embedding) ==
    [id |-> id, title |-> <<title>>, ingredients |-> <<"a">>,
     instructions |-> <<"b">>, embedding |-> embedding]

\* The table after startup has loaded five recipe files.
StartupRows ==
    << SeedRow(1, "c", Some(<<0, 1>>)), SeedRow(2, "d", Some(<<1, 1>>)),
       SeedRow(3, "e", Some(<<1, 0>>)), SeedRow(4, "f", Some(<<-1, 0>>)),
       SeedRow(5, "g", Some(<<2, 2>>)) >>

\* The scans of the table the model draws from: from any row on, wrapping
\* round, forwards or backwards.
Rotations ==
    LET n == Len(store) IN
    {[k \in 1..n |-> ((k + d - 1) % n) + 1] : d \in 0..(n - 1)}
    \cup {[k \in 1..n |-> n - ((k + d - 1) % n)] : d \in 0..(n - 1)}

Scans == IF store = <<>> THEN {<<>>} ELSE Rotations

RepositoryFailures == {"none", "exists_by_title", "get_by_title", "create"}

SearchFailures == {"none", "search_by_embedding"}

GenerationOutcomes == {Returns(<<"recommendation">>),
                       Raises(Exc("Exception", "pipeline error"))}

QueryEmbeddings == {<<>>, <<1, 0>>, <<1, 2>>}

LimitArgs == {None} \cup {Some(k) : k \in 0..MaxLimitArg}

InitService ==
    /\ store \in {<<>>, StartupRows}
    /\ svcOp = None
    /\ svcCalls = <<>>
    /\ svcResult = None
    /\ ApiIdle /\ BootIdle /\ ParseIdle /\ LifeIdle

call_ingest_recipe ==
    /\ svcOp = None
    /\ \E content \in RecipeContents, embedded \in RecipeEmbeddings,
          failing \in RepositoryFailures :
          ingest_recipe(content, embedded, failing)

call_recommend_recipe ==
    /\ svcOp = None
    /\ \E ingredients \in IngredientLists, embedded \in TextEmbeddings,
          failing \in SearchFailures, generated \in GenerationOutcomes,
          scan \in Scans :
          recommend_recipe(ingredients, embedded, failing, generated, scan)

call_search_by_embedding ==
    /\ svcOp = None
    /\ \E embedding \in QueryEmbeddings, limit \in LimitArgs,
          failing \in SearchFailures, scan \in Scans :
          search_by_embedding(embedding, limit, failing, scan)

----------------------------------------------------------------------------
(* Properties of the service layer.                                        *)

IsServiceCall(name) == svcOp # None /\ svcOp[1].name = name

CallNames == [k \in DOMAIN svcCalls |-> svcCalls[k].fn]

LastRow == store[Len(store)]

\* C6 (as stated): recipes are stored with vector embeddings: every recipe
\* ingest_recipe creates has a non-null embedding, so in every reachable state
\* every stored recipe has an embedding.
C6_EveryStoredRecipeHasEmbedding ==
    \A k \in DOMAIN store : store[k].embedding # None

\* C6 (amended): the table changes only by ingest_recipe appending one recipe,
\* and that recipe carries what generate_recipe_embedding returned for it: a
\* vector when the embedder succeeded, null when it failed.
C6_StoredEmbeddingIsTheEmbedders ==
    [][store' # store =>
           /\ svcOp' # None
           /\ svcOp'[1].name = "ingest_recipe"
           /\ Len(store') = Len(store) + 1
           /\ SubSeq(store', 1, Len(store)) = store
           /\ store'[Len(store')].embedding = svcOp'[1].embedded]_vars

\* ingest_recipe has created a recipe while the embedder was failing.
C6_Witness ==
    /\ IsServiceCall("ingest_recipe")
    /\ svcOp[1].embedded = None
    /\ CallNames = <<"exists_by_title", "generate_recipe_embedding", "create">>
    /\ store # <<>>
    /\ svcResult = Some(Returns(Some(LastRow)))
    /\ LastRow.embedding = None

\* C17: ingest_recipe never raises: whatever the content and whatever fails in
\* the repository or the embedding service, it returns a Recipe or None; when
\* parsing fails it returns None without a call on the repository or the
\* embedding service; when a recipe with the parsed title is already stored
\* it makes no embedding call and no create call.
C17_IngestNeverRaises ==
    [][(svcOp = None /\ svcOp' # None /\ svcOp'[1].name = "ingest_recipe") =>
           LET parsed == parse_content(svcOp'[1].content)
               names == {svcCalls'[k].fn : k \in DOMAIN svcCalls'} IN
           /\ svcResult'[1].kind = "return"
           /\ parsed = None =>
                 /\ svcCalls' = <<>>
                 /\ svcResult'[1].value = None
           /\ (/\ parsed # None
               /\ \E k \in DOMAIN store : store[k].title = parsed[1].title)
              => /\ "generate_recipe_embedding" \notin names
                 /\ "create" \notin names
                 /\ store' = store]_vars

\* ingest_recipe has returned the stored recipe of the same title.
C17_Witness ==
    /\ IsServiceCall("ingest_recipe")
    /\ CallNames = <<"exists_by_title", "get_by_title">>
    /\ svcResult[1].kind = "return"
    /\ svcResult[1].value # None
    /\ svcResult[1].value[1] \in Range(store)

SearchReturned ==
    /\ IsServiceCall("search_by_embedding")
    /\ svcResult[1].kind = "return"

StoredWithEmbedding == {r \in Range(store) : r.embedding # None}

\* What search_by_embedding has returned is what the claim allows for the
\* query and the limit it was called with.
SearchResultAsClaimed ==
    LET q == svcOp[1].embedding
        limit == IF svcOp[1].limit = None THEN default_search_limit
                 ELSE svcOp[1].limit[1]
        found == svcResult[1].value IN
    /\ Len(found) <= limit
    /\ Range(found) \subseteq StoredWithEmbedding
    /\ q = <<>> => found = <<>> /\ svcCalls = <<>>
    /\ q # <<>> =>
          /\ \A i, j \in DOMAIN found :
                i < j => NotFarther(found[i].embedding[1], found[j].embedding[1], q)
          /\ \A r \in StoredWithEmbedding \ Range(found) :
                \A k \in DOMAIN found :
                   NotFarther(found[k].embedding[1], r.embedding[1], q)

\* C8: search_by_embedding(embedding, limit) returns at most limit recipes
\* (default_search_limit when limit is None), each a stored recipe with a
\* non-null embedding, in non-decreasing distance to the query, with no stored
\* recipe left out that is closer than a returned one; an empty query gives []
\* without a query on the store; and the store is unchanged by the call.
C8_SearchReturnsTheNearestUpToLimit ==
    [][(SearchReturned)' /\ svcOp = None =>
           (SearchResultAsClaimed)' /\ store' = store]_vars

NoEmbeddingReturned ==
    svcOp[1].embedded = None \/ svcOp[1].embedded = Some(<<>>)

RaisedValueError ==
    /\ svcResult[1].kind = "raise"
    /\ svcResult[1].exc[1].type = "ValueError"

\* What recommend_recipe does for an empty list and for no embedding.
RecommendRefusals ==
    /\ svcOp[1].ingredients = <<>> =>
          /\ svcResult = Some(Raises(Exc("ValueError", "Ingredients cannot be empty")))
          /\ svcCalls = <<>>
    /\ svcOp[1].ingredients # <<>> /\ NoEmbeddingReturned =>
          /\ RaisedValueError
          /\ CallNames = <<"generate_text_embedding">>

\* C10 (as stated): recommend_recipe raises ValueError("Ingredients cannot be
\* empty") for an empty list before any call, raises ValueError when there is
\* no embedding, calling neither the search nor the RAG pipeline; otherwise
\* the calls are embedding, search, generation, in that order, each once.
C10_CallsInOrderEachOnce ==
    IsServiceCall("recommend_recipe") =>
        /\ RecommendRefusals
        /\ svcOp[1].ingredients # <<>> /\ ~NoEmbeddingReturned =>
              CallNames = <<"generate_text_embedding", "search_by_embedding",
                            "generate_recommendation">>

\* C10 (amended): as stated, but the generation follows only a search that
\* returned: when search_by_embedding raises, recommend_recipe raises that
\* exception and the RAG pipeline is not called.
C10_CallsInOrderUntilOneRaises ==
    IsServiceCall("recommend_recipe") =>
        /\ RecommendRefusals
        /\ svcOp[1].ingredients # <<>> /\ ~NoEmbeddingReturned =>
              /\ Len(svcCalls) >= 2
              /\ svcCalls[1].fn = "generate_text_embedding"
              /\ svcCalls[2].fn = "search_by_embedding"
              /\ IF svcCalls[2].ret.kind = "raise"
                 THEN /\ Len(svcCalls) = 2
                      /\ svcResult = Some(svcCalls[2].ret)
                 ELSE /\ Len(svcCalls) = 3
                      /\ svcCalls[3].fn = "generate_recommendation"
                      /\ svcResult = Some(svcCalls[3].ret)

\* recommend_recipe has stopped at a search that raised.
C10_Witness ==
    /\ IsServiceCall("recommend_recipe")
    /\ CallNames = <<"generate_text_embedding", "search_by_embedding">>
    /\ svcCalls[2].ret.kind = "raise"
    /\ svcResult = Some(svcCalls[2].ret)

RecommendReturned ==
    /\ IsServiceCall("recommend_recipe")
    /\ svcResult[1].kind = "return"

\* The items with ", " between them, in their order.
IsCommaJoined(text, items) ==
    /\ Len(text) = 2 * Len(items) - 1
    /\ \A k \in DOMAIN items : text[2 * k - 1] = items[k]
    /\ \A k \in 1..(Len(items) - 1) : text[2 * k] = ", "

\* What the RAG pipeline was given in the call that has returned.
PipelineInput ==
    LET given == {k \in DOMAIN svcCalls : svcCalls[k].fn = "generate_recommendation"} IN
    /\ Cardinality(given) = 1
    /\ \A k \in given :
          /\ Len(svcCalls[k].arg.recipes) <= 3
          /\ Range(svcCalls[k].arg.recipes) \subseteq StoredWithEmbedding
          /\ IsCommaJoined(svcCalls[k].arg.ingredients, svcOp[1].ingredients)

\* C23: in every successful recommend_recipe call the RAG pipeline receives
\* at most recommendation_search_limit (3) recipes, all of them stored recipes
\* with a non-null embedding, together with the ingredients joined by ", " in
\* request order; and recommend_recipe never writes to the store.
C23_PipelineInputAndStoreUntouched ==
    [][(IsServiceCall("recommend_recipe"))' /\ svcOp = None =>
           /\ store' = store
           /\ (RecommendReturned => PipelineInput)']_vars

\* Two ingredients were asked for; the table holds a recipe without embedding
\* and more than three with one, and the pipeline was given three recipes.
C23_Witness ==
    /\ RecommendReturned
    /\ Len(svcOp[1].ingredients) = 2
    /\ \E r \in Range(store) : r.embedding = None
    /\ Cardinality(StoredWithEmbedding) > 3
    /\ Len(svcCalls) = 3
    /\ Len(svcCalls[3].arg.recipes) = 3
    /\ svcCalls[3].arg.ingredients = <<"tomatoes", ", ", "basil">>

----------------------------------------------------------------------------
(* ImageVisionService.extract_ingredients_from_image (src/ai/vision.py):   *)
(* the reply of the vision model, cut into ingredients.                    *)

\* The characters of "â€¢-*1234567890. " as the source file holds them.
BULLET_POINT_CHARS ==
    {"â", "€", "¢", "-", "*", "1", "2", "3", "4", "5", "6", "7", "8", "9", "0",
     ".", " "}

MINIMUM_INGREDIENT_LENGTH == 1

\* lstrip that removes one leading character at most.
LstripOnce(s, chars) ==
    IF s # <<>> /\ Head(s) \in chars THEN Tail(s) ELSE s

\* str.lstrip(chars)
RECURSIVE Lstrip(_, _)
Lstrip(s, chars) ==
    IF s # <<>> /\ Head(s) \in chars THEN Lstrip(Tail(s), chars) ELSE s

\* The loop over content.strip().split("\n").
RECURSIVE IngredientsOfLines(_)
IngredientsOfLines(lines) ==
    IF lines = <<>> THEN <<>>
    ELSE LET ingredient == Lstrip(Strip(Head(lines)), BULLET_POINT_CHARS) IN
         (IF ingredient # <<>> /\ Len(ingredient) > MINIMUM_INGREDIENT_LENGTH
          THEN <<ingredient>> ELSE <<>>) \o IngredientsOfLines(Tail(lines))

\* What the chat completion does: it raises, answers without a choice, or
\* answers with a content that may be None.
ChatRaises == [kind |-> "raise", content |-> None]
ChatNoChoice == [kind |-> "no_choice", content |-> None]
ChatReply(content) == [kind |-> "reply", content |-> content]

\* extract_ingredients_from_image: every exception, the IndexError of
\* choices[0] included, gives [].
extract_ingredients_from_image(chat) ==
    IF chat.kind # "reply" THEN <<>>
    ELSE IF chat.content = None \/ chat.content[1] = <<>> THEN <<>>
    ELSE IngredientsOfLines(SplitLines(Strip(chat.content[1])))

\* extract_ingredients_from_image(image_data)
extract_ingredients_from_image_call(chat) ==
    /\ svcOp = None
    /\ svcOp' = Some([name |-> "extract_ingredients_from_image", chat |-> chat])
    /\ svcCalls' = <<Call("chat.completions.create", "image",
                          IF chat.kind = "raise"
                          THEN Raises(Exc("Exception", "API error"))
                          ELSE Returns(chat))>>
    /\ svcResult' = Some(Returns(extract_ingredients_from_image(chat)))
    /\ UNCHANGED <<store, apiVars, bootVars, parseVars, lifeVars>>

MaxReplyLen == 4

ReplyChars == {"a", "b", "-", "1", " ", NL}

ChatOutcomes ==
    {ChatRaises, ChatNoChoice, ChatReply(None)}
    \cup {ChatReply(Some(text)) : text \in SeqsUpTo(ReplyChars, MaxReplyLen)}

InitVision == SvcIdle /\ ApiIdle /\ BootIdle /\ ParseIdle /\ LifeIdle

call_extract_ingredients_from_image ==
    /\ svcOp = None
    /\ \E chat \in ChatOutcomes : extract_ingredients_from_image_call(chat)

NextVision ==
    \/ call_extract_ingredients_from_image
    \/ service_return

SpecVision == InitVision /\ [][NextVision]_vars

\* A line without the blanks around it and then without its leading bullet
\* characters.
RECURSIVE DropBullets(_)
DropBullets(line) ==
    IF line = <<>> THEN <<>>
    ELSE IF Head(line) \in BULLET_POINT_CHARS THEN DropBullets(Tail(line))
    ELSE line

\* The text cut at its newlines, from the left.
RECURSIVE CutAtNewlines(_, _)
CutAtNewlines(text, line) ==
    IF text = <<>> THEN <<line>>
    ELSE IF Head(text) = NL THEN <<line>> \o CutAtNewlines(Tail(text), <<>>)
    ELSE CutAtNewlines(Tail(text), Append(line, Head(text)))

IngredientsAsClaimed(text) ==
    LET lines == CutAtNewlines(text, <<>>)
        cleaned == [n \in DOMAIN lines |-> DropBullets(DropBlanks(lines[n]))] IN
    SelectSeq(cleaned, LAMBDA x : Len(x) >= 2)

\* C19: extract_ingredients_from_image never raises; it returns, in reply
\* order, the lines of the reply without surrounding whitespace and leading
\* BULLET_POINT_CHARS, keeping those of length at least 2; no returned
\* ingredient starts with a bullet character; an empty reply or any exception
\* gives the empty list.
C19_IngredientsAreTheCleanedLines ==
    IsServiceCall("extract_ingredients_from_image") =>
        LET chat == svcOp[1].chat
            found == svcResult[1].value IN
        /\ svcResult[1].kind = "return"
        /\ \A k \in DOMAIN found :
              Len(found[k]) >= 2 /\ found[k][1] \notin BULLET_POINT_CHARS
        /\ IF chat.kind = "reply" /\ chat.content # None
           THEN found = IngredientsAsClaimed(chat.content[1])
           ELSE found = <<>>

\* A reply that starts with two bullet characters has given one ingredient.
C19_Witness ==
    /\ IsServiceCall("extract_ingredients_from_image")
    /\ svcOp[1].chat.kind = "reply"
    /\ svcOp[1].chat.content # None
    /\ Len(svcOp[1].chat.content[1]) >= 2
    /\ svcOp[1].chat.content[1][1] = "-"
    /\ svcOp[1].chat.content[1][2] \in BULLET_POINT_CHARS
    /\ Len(svcResult[1].value) = 1

----------------------------------------------------------------------------
(* RecommendationService.recommend_recipe_from_image                       *)
(* (src/core/recommendation_service.py) on the vision service.             *)

vision_supported_formats == {"JPEG", "PNG", "WEBP", "GIF"}

\* validate_image that accepts every image.
ValidateAnyImage(image) == TRUE

\* ImageVisionService.validate_image: Image.open gives the image's format, or
\* raises (no format), and then the image is not valid.
validate_image(image) ==
    image.format # None /\ image.format[1] \in vision_supported_formats

\* recommend_recipe_from_image: the calls it makes and what it returns or
\* raises.  `chat` is what the vision model does; the other inputs are those
\* of recommend_recipe.
RecommendImageRun(image, chat, embedded, failing, generated, scan) ==
    LET c1 == Call("validate_image", image, Returns(validate_image(image)))
        detected == extract_ingredients_from_image(chat)
        c2 == Call("extract_ingredients_from_image", image, Returns(detected)) IN
    IF ~validate_image(image)
    THEN [calls |-> <<c1>>,
          result |-> Raises(Exc("ValueError",
              "Invalid image format. Please upload a valid image file (JPEG, PNG, WEBP, or GIF)."))]
    ELSE IF detected = <<>>
    THEN [calls |-> <<c1, c2>>,
          result |-> Raises(Exc("ValueError",
              "No ingredients could be detected in the image. Please try uploading a clearer image with visible food ingredients."))]
    ELSE LET run == RecommendRun(detected, embedded, failing, generated, scan) IN
         [calls |-> <<c1, c2, Call("recommend_recipe", detected, run.result)>>
                    \o run.calls,
          result |-> IF run.result.kind = "return"
                     THEN Returns(<<detected, run.result.value>>)
                     ELSE run.result]

\* recommend_recipe_from_image(image_data)
recommend_recipe_from_image(image, chat, embedded, failing, generated, scan) ==
    \E run \in {RecommendImageRun(image, chat, embedded, failing, generated, scan)} :
    /\ svcOp = None
    /\ svcOp' = Some([name |-> "recommend_recipe_from_image", image |-> image,
                      chat |-> chat, embedded |-> embedded, failing |-> failing,
                      generated |-> generated])
    /\ svcCalls' = run.calls
    /\ svcResult' = Some(run.result)
    /\ UNCHANGED <<store, apiVars, bootVars, parseVars, lifeVars>>

\* Uploaded images, by what Image.open makes of them.
Images == {[format |-> None], [format |-> Some("PNG")], [format |-> Some("BMP")]}

\* What the vision model does for them.
VisionChats ==
    {ChatRaises, ChatReply(Some(<<"-", " ", "1">>)),
     ChatReply(Some(<<"-", " ", "a", "b", NL, "c", "d", " ">>))}

call_recommend_recipe_from_image ==
    /\ svcOp = None
    /\ \E image \in Images, chat \in VisionChats, embedded \in TextEmbeddings,
          failing \in SearchFailures, generated \in GenerationOutcomes,
          scan \in Scans :
          recommend_recipe_from_image(image, chat, embedded, failing, generated, scan)

\* The uploaded image is one validate_image accepts.
ImageIsValid ==
    svcOp[1].image.format \in {Some(f) : f \in vision_supported_formats}

\* C11: recommend_recipe_from_image validates, then extracts, then recommends:
\* an invalid image raises ValueError without the vision extraction being
\* called; an empty detection raises ValueError without an embedding, search
\* or generation call; on success the returned ingredients are the list passed
\* to recommend_recipe and the returned text is its result.
C11_ValidateThenExtractThenRecommend ==
    IsServiceCall("recommend_recipe_from_image") =>
        /\ svcCalls # <<>> /\ svcCalls[1].fn = "validate_image"
        /\ ~ImageIsValid =>
              RaisedValueError /\ CallNames = <<"validate_image">>
        /\ ImageIsValid =>
              /\ Len(svcCalls) >= 2
              /\ svcCalls[2].fn = "extract_ingredients_from_image"
              /\ svcCalls[2].ret.value = <<>> =>
                    /\ RaisedValueError
                    /\ CallNames = <<"validate_image",
                                     "extract_ingredients_from_image">>
              /\ svcCalls[2].ret.value # <<>> =>
                    /\ Len(svcCalls) >= 3
                    /\ svcCalls[3].fn = "recommend_recipe"
                    /\ svcCalls[3].arg = svcCalls[2].ret.value
                    /\ \A k \in 4..Len(svcCalls) :
                          svcCalls[k].fn \notin {"validate_image",
                                                 "extract_ingredients_from_image",
                                                 "recommend_recipe"}
        /\ svcResult[1].kind = "return" =>
              /\ svcResult[1].value[1] = svcCalls[3].arg
              /\ svcCalls[3].ret.kind = "return"
              /\ svcResult[1].value[2] = svcCalls[3].ret.value

\* recommend_recipe_from_image has returned the detected ingredients and a
\* recommendation.
C11_Witness ==
    /\ IsServiceCall("recommend_recipe_from_image")
    /\ svcResult[1].kind = "return"
    /\ Len(svcResult[1].value[1]) = 2
    /\ CallNames = <<"validate_image", "extract_ingredients_from_image",
                     "recommend_recipe", "generate_text_embedding",
                     "search_by_embedding", "generate_recommendation">>

----------------------------------------------------------------------------
(* map_service_exception (src/api/error_map.py).  A message is a sequence  *)
(* of pieces, the phrases the function looks for being single pieces.      *)

\* The classes an exception of each class is an instance of.
Bases ==
    [IntegrityError |-> {"IntegrityError", "Exception"},
     UnicodeDecodeError |-> {"UnicodeDecodeError", "ValueError", "Exception"},
     JSONDecodeError |-> {"JSONDecodeError", "ValueError", "Exception"},
     ValueError |-> {"ValueError", "Exception"},
     KeyError |-> {"KeyError", "Exception"},
     Exception |-> {"Exception"}]

\* isinstance that looks at the exception's own class only.
IsExactly(exc, class) == exc.type = class

\* isinstance(exc, class)
IsInstance(exc, class) == class \in Bases[exc.type]

\* `phrase in error_msg`
Contains(msg, phrase) == \E k \in DOMAIN msg : msg[k] = phrase

InvalidEncodingDetail ==
    <<"Invalid file encoding. Please ensure the file is UTF-8 encoded.">>

UnexpectedErrorDetail ==
    <<"An unexpected error occurred while processing your request. Please try again later.">>

InvalidFileTypeDetail == <<"Invalid file type. Please upload an image file.">>

map_service_exception(exc) ==
    IF IsInstance(exc, "IntegrityError")
    THEN HTTPException(HTTP_400_BAD_REQUEST, <<"Integrity error: ">> \o exc.msg)
    ELSE IF IsInstance(exc, "UnicodeDecodeError")
    THEN HTTPException(HTTP_400_BAD_REQUEST, InvalidEncodingDetail)
    ELSE IF IsInstance(exc, "ValueError")
    THEN IF Contains(exc.msg, "Ingredients cannot be empty")
         THEN HTTPException(HTTP_400_BAD_REQUEST, <<"Ingredients cannot be empty">>)
         ELSE IF Contains(exc.msg, "Invalid file type")
         THEN HTTPException(HTTP_400_BAD_REQUEST, InvalidFileTypeDetail)
         ELSE IF Contains(exc.msg, "Invalid image format")
         THEN HTTPException(HTTP_400_BAD_REQUEST, exc.msg)
         ELSE IF Contains(exc.msg, "No ingredients could be detected")
         THEN HTTPException(HTTP_400_BAD_REQUEST, exc.msg)
         ELSE IF Contains(exc.msg, "not enough values to unpack")
         THEN HTTPException(HTTP_400_BAD_REQUEST, InvalidFileTypeDetail)
         ELSE HTTPException(HTTP_400_BAD_REQUEST, exc.msg)
    ELSE HTTPException(HTTP_500_INTERNAL_SERVER_ERROR, UnexpectedErrorDetail)

\* map_service_exception(exc, logger)
map_service_exception_call(exc) ==
    /\ svcOp = None
    /\ svcOp' = Some([name |-> "map_service_exception", exc |-> exc])
    /\ svcCalls' = <<>>
    /\ svcResult' = Some(Returns(map_service_exception(exc)))
    /\ UNCHANGED <<store, apiVars, bootVars, parseVars, lifeVars>>

MaxMsgLen == 2

MessagePieces ==
    {"Ingredients cannot be empty", "Invalid file type", "Invalid image format",
     "No ingredients could be detected", "not enough values to unpack",
     "connection refused", ": "}

MappedExceptions ==
    {Exc(type, msg) : type \in DOMAIN Bases,
                      msg \in SeqsUpTo(MessagePieces, MaxMsgLen)}

InitErrorMap == SvcIdle /\ ApiIdle /\ BootIdle /\ ParseIdle /\ LifeIdle

call_map_service_exception ==
    /\ svcOp = None
    /\ \E exc \in MappedExceptions : map_service_exception_call(exc)

NextErrorMap ==
    \/ call_map_service_exception
    \/ service_return

SpecErrorMap == InitErrorMap /\ [][NextErrorMap]_vars

ValueErrorClasses == {"ValueError", "UnicodeDecodeError", "JSONDecodeError"}

\* C12: map_service_exception is total and answers 400 or 500 only:
\* IntegrityError gives 400; UnicodeDecodeError gives 400 with the fixed
\* invalid-encoding detail, not the ValueError branch's; any other ValueError
\* gives 400; every other exception gives 500 with the fixed generic detail,
\* in which no piece of the exception's message appears.
C12_MapsTo400Or500 ==
    IsServiceCall("map_service_exception") =>
        LET exc == svcOp[1].exc
            http == svcResult[1].value IN
        /\ svcResult[1].kind = "return"
        /\ http.type = "HTTPException"
        /\ http.status_code \in {HTTP_400_BAD_REQUEST, HTTP_500_INTERNAL_SERVER_ERROR}
        /\ exc.type = "IntegrityError" => http.status_code = HTTP_400_BAD_REQUEST
        /\ exc.type = "UnicodeDecodeError" =>
              /\ http.status_code = HTTP_400_BAD_REQUEST
              /\ http.detail = InvalidEncodingDetail
        /\ exc.type \in ValueErrorClasses => http.status_code = HTTP_400_BAD_REQUEST
        /\ exc.type \notin ValueErrorClasses \cup {"IntegrityError"} =>
              /\ http.status_code = HTTP_500_INTERNAL_SERVER_ERROR
              /\ http.detail = UnexpectedErrorDetail
              /\ \A k \in DOMAIN exc.msg : ~Contains(http.detail, exc.msg[k])

\* A UnicodeDecodeError whose message holds a phrase of the ValueError branch
\* has been mapped.
C12_Witness ==
    /\ IsServiceCall("map_service_exception")
    /\ svcOp[1].exc.type = "UnicodeDecodeError"
    /\ Contains(svcOp[1].exc.msg, "Invalid file type")
    /\ svcResult[1].value.detail = InvalidEncodingDetail

----------------------------------------------------------------------------
(* RecipeRAGPipeline.generate_recommendation (src/ai/rag.py).              *)

ApologyMessage ==
    "I apologize, but I'm having trouble generating a recipe recommendation at the moment. Please try again later."

\* The dict pipeline.run returns: whether it holds a key other than
\* "chat_generator", and under "chat_generator" nothing or a dict whose
\* "replies" is nothing or a list of messages, each with a text or none.
PipelineResult(other, chat_generator) ==
    [other |-> other, chat_generator |-> chat_generator]

\* `result and ...`: None and the empty dict are falsy.
ResultIsFalsy(result) ==
    result = None \/ (~result[1].other /\ result[1].chat_generator = None)

\* generate_recommendation on what pipeline.run does: pipeline.run and the
\* indexing replies[0] are not guarded.
generate_recommendation(run) ==
    IF run.kind = "raise" THEN run
    ELSE LET result == run.value IN
    IF ResultIsFalsy(result) THEN Returns(Some(ApologyMessage))
    ELSE IF result[1].chat_generator = None THEN Returns(Some(ApologyMessage))
    ELSE IF result[1].chat_generator[1].replies = None
    THEN Returns(Some(ApologyMessage))
    ELSE LET replies == result[1].chat_generator[1].replies[1] IN
         IF replies = <<>>
         THEN Raises(Exc("IndexError", "list index out of range"))
         ELSE Returns(replies[1])

\* generate_recommendation(recipes, ingredients)
generate_recommendation_call(recipes, ingredients, run) ==
    /\ svcOp = None
    /\ svcOp' = Some([name |-> "generate_recommendation", recipes |-> recipes,
                      ingredients |-> ingredients, run |-> run])
    /\ svcCalls' = <<Call("pipeline.run",
                          [recipes |-> recipes, ingredients |-> ingredients], run)>>
    /\ svcResult' = Some(generate_recommendation(run))
    /\ UNCHANGED <<store, apiVars, bootVars, parseVars, lifeVars>>

MaxReplies == 2

\* The text of a reply: none, or a text.
ReplyTexts == {None, Some("Tomato soup"), Some("Pasta")}

ChatGeneratorOutputs ==
    {None, Some([replies |-> None])}
    \cup {Some([replies |-> Some(r)]) : r \in SeqsUpTo(ReplyTexts, MaxReplies)}

PipelineRuns ==
    {Raises(Exc("Exception", "pipeline error")), Returns(None)}
    \cup {Returns(Some(PipelineResult(other, cg))) :
             other \in BOOLEAN, cg \in ChatGeneratorOutputs}

RetrievedRecipes ==
    {<<>>, SubSeq(StartupRows, 1, 1), SubSeq(StartupRows, 1, 2)}

IngredientTexts == {JoinComma(l) : l \in IngredientLists \ {<<>>}}

InitRag == SvcIdle /\ ApiIdle /\ BootIdle /\ ParseIdle /\ LifeIdle

call_generate_recommendation ==
    /\ svcOp = None
    /\ \E recipes \in RetrievedRecipes, ingredients \in IngredientTexts,
          run \in PipelineRuns :
          generate_recommendation_call(recipes, ingredients, run)

NextRag ==
    \/ call_generate_recommendation
    \/ service_return

SpecRag == InitRag /\ [][NextRag]_vars

\* The pipeline produced replies.
ProducedReplies ==
    LET run == svcOp[1].run IN
    /\ run.kind = "return"
    /\ run.value # None
    /\ run.value[1].chat_generator # None
    /\ run.value[1].chat_generator[1].replies # None
    /\ run.value[1].chat_generator[1].replies[1] # <<>>

\* C13: generate_recommendation always returns a string and never raises: the
\* text of the first reply when the pipeline produced replies, and otherwise
\* (no result, no chat_generator key, no replies, a failing run) the fixed
\* apology message.
C13_ReturnsAStringNeverRaises ==
    IsServiceCall("generate_recommendation") =>
        /\ svcResult[1].kind = "return"
        /\ svcResult[1].value # None
        /\ IF ProducedReplies
           THEN svcResult[1].value =
                   svcOp[1].run.value[1].chat_generator[1].replies[1][1]
           ELSE svcResult[1].value = Some(ApologyMessage)

NextService ==
    \/ call_ingest_recipe
    \/ call_recommend_recipe
    \/ call_search_by_embedding
    \/ call_recommend_recipe_from_image
    \/ service_return

SpecService == InitService /\ [][NextService]_vars

----------------------------------------------------------------------------
(* The lifespan of the application (src/main.py): startup, serving,        *)
(* shutdown.  init_db runs DatabaseManager.bootstrap as modelled above.    *)

MaxServed == 2

\* The positional parameters, self apart, of each constructor init_services
\* calls.
Parameters ==
    [EmbeddingService |-> <<"settings", "logger">>,
     RecipeRAGPipeline |-> <<"settings">>,
     ImageVisionService |-> <<"settings", "logger">>,
     IngestionService |-> <<"repository", "embedding_service", "logger">>,
     RecommendationService |-> <<"repository", "embedding_service",
                                 "rag_pipeline", "vision_service", "logger">>]

\* The constructor calls of init_services, in order: the attribute of
\* app.state each result is stored on, the class, the arguments passed.
Constructions ==
    << [attr |-> "embedding_service", class |-> "EmbeddingService",
        args |-> <<"settings", "logger">>],
       [attr |-> "rag_pipeline", class |-> "RecipeRAGPipeline",
        args |-> <<"settings", "logger">>],
       [attr |-> "vision_service", class |-> "ImageVisionService",
        args |-> <<"settings", "logger">>],
       [attr |-> "ingestion_service", class |-> "IngestionService",
        args |-> <<"repository", "embedding_service", "logger">>],
       [attr |-> "recommendation_service", class |-> "RecommendationService",
        args |-> <<"repository", "embedding_service", "rag_pipeline",
                   "vision_service", "logger">>] >>

\* A call binds its positional arguments to the parameters one by one; with
\* more or fewer arguments than parameters Python raises TypeError.
CallBinds(class, args) == Len(args) = Len(Parameters[class])

\* init_services from its k-th constructor call on: the attributes of
\* app.state after it, and what it raised.
RECURSIVE init_services(_, _)
init_services(attrs, k) ==
    IF k > Len(Constructions) THEN [attrs |-> attrs, raised |-> None]
    ELSE IF ~CallBinds(Constructions[k].class, Constructions[k].args)
    THEN [attrs |-> attrs,
          raised |-> Some(Exc("TypeError", Constructions[k].class))]
    ELSE init_services(attrs \cup {Constructions[k].attr}, k + 1)

\* The server enters the lifespan: lines 212-213.
lifespan_enter(load_startup_data) ==
    /\ lifePc = "idle"
    /\ bootPc = "idle"
    /\ life' = Some([load |-> load_startup_data, attrs |-> {"settings"},
                     steps |-> <<>>, served |-> 0, closed |-> FALSE,
                     raised |-> None])
    /\ lifePc' = "init_logger"
    /\ UNCHANGED <<apiVars, bootVars, parseVars, svcVars>>

\* init_db calls db_manager.bootstrap(): line 50.
init_db_bootstrap ==
    /\ lifePc = "init_db"
    /\ bootPc = "idle"
    /\ bootstrap_call(None, None)

\* bootstrap is over: init_db goes on (lines 51-54), or its exception leaves
\* the lifespan.
init_db_finish ==
    /\ lifePc = "init_db"
    /\ bootPc \in {"done", "raised"}
    /\ IF bootPc = "done"
       THEN /\ life' = Some([life[1] EXCEPT
                   !.steps = Append(@, "init_db"),
                   !.attrs = @ \cup {"db_manager", "repository"}])
            /\ lifePc' = "init_services"
       ELSE /\ life' = Some([life[1] EXCEPT
                   !.steps = Append(@, "init_db"),
                   !.raised = bootTrace[1].raised])
            /\ lifePc' = "failed"
    /\ UNCHANGED <<apiVars, bootVars, parseVars, svcVars>>

\* The next statement of lifespan, init_db apart: lines 215-234.
lifespan_step ==
    /\ lifePc \in {"init_logger", "init_services", "init_routes",
                   "load_startup_data", "initialized", "shutdown"}
    /\ CASE lifePc = "init_logger" ->
              /\ life' = Some([life[1] EXCEPT !.steps = Append(@, "init_logger"),
                                              !.attrs = @ \cup {"logger"}])
              /\ lifePc' = "init_db"
         [] lifePc = "init_services" ->
              LET run == init_services(life[1].attrs, 1) IN
              /\ life' = Some([life[1] EXCEPT !.steps = Append(@, "init_services"),
                                              !.attrs = run.attrs,
                                              !.raised = run.raised])
              /\ lifePc' = IF run.raised = None THEN "init_routes" ELSE "failed"
         [] lifePc = "init_routes" ->
              /\ life' = Some([life[1] EXCEPT !.steps = Append(@, "init_routes")])
              /\ lifePc' = IF life[1].load THEN "load_startup_data"
                           ELSE "initialized"
         [] lifePc = "load_startup_data" ->
              /\ life' = Some([life[1] EXCEPT
                      !.steps = Append(@, "load_startup_data")])
              /\ lifePc' = "initialized"
         [] lifePc = "initialized" ->
              IF life[1].served < MaxServed
              THEN \E stop \in BOOLEAN :
                      IF stop
                      THEN life' = life /\ lifePc' = "shutdown"
                      ELSE /\ life' = Some([life[1] EXCEPT !.served = @ + 1])
                           /\ lifePc' = "initialized"
              ELSE life' = life /\ lifePc' = "shutdown"
         [] lifePc = "shutdown" ->
              /\ life' = Some([life[1] EXCEPT !.closed = TRUE])
              /\ lifePc' = "closed"
    /\ UNCHANGED <<apiVars, bootVars, parseVars, svcVars>>

InitLifespan == LifeIdle /\ BootIdle /\ ApiIdle /\ ParseIdle /\ SvcIdle

\* bootstrap runs only inside init_db.
Bootstrapping == lifePc = "init_db" /\ bootPc \notin {"idle", "done", "raised"}

NextLifespan ==
    \/ \E load_startup_data \in BOOLEAN : lifespan_enter(load_startup_data)
    \/ init_db_bootstrap
    \/ Bootstrapping /\ \E result \in AttemptResults : boot_attempt(result)
    \/ Bootstrapping /\ boot_sleep
    \/ Bootstrapping /\ boot_for_end
    \/ Bootstrapping /\ \E tables_created \in BOOLEAN : boot_finish(tables_created)
    \/ init_db_finish
    \/ lifespan_step

SpecLifespan == InitLifespan /\ [][NextLifespan]_vars

\* The steps of a startup, in order.
StartupSteps(load) ==
    <<"init_logger", "init_db", "init_services", "init_routes">>
    \o (IF load THEN <<"load_startup_data">> ELSE <<>>)

ServicesOnAppState ==
    {"logger", "db_manager", "repository", "embedding_service", "rag_pipeline",
     "vision_service", "ingestion_service", "recommendation_service"}

\* C15: whenever the database is reachable, startup runs to completion:
\* init_logger, init_db, init_services, init_routes and (only when
\* settings.load_startup_data) load_startup_data run once each in that order,
\* every service is on app.state, and the app is initialized before it serves
\* a request; if bootstrap raises, no later step runs; on shutdown
\* db_manager.close() is called.
C15_StartupRunsToCompletion ==
    life # None =>
        LET l == life[1] IN
        /\ IsPrefix(l.steps, StartupSteps(l.load))
        /\ bootPc = "raised" => IsPrefix(l.steps, <<"init_logger", "init_db">>)
        /\ lifePc = "failed" => bootPc = "raised"
        /\ lifePc \in {"initialized", "shutdown", "closed"} =>
              /\ l.steps = StartupSteps(l.load)
              /\ ServicesOnAppState \subseteq l.attrs
        /\ l.served > 0 => l.steps = StartupSteps(l.load)
        /\ lifePc = "closed" => l.closed

----------------------------------------------------------------------------
(* load_startup_data (src/main.py) on the files it finds.                  *)
(*                                                                         *)
(* An entry of data.zip or of the recipes directory is of one of these     *)
(* kinds: "recipe" (a .txt file ingest_recipe makes a recipe of),          *)
(* "unparsable" (a .txt file ingest_recipe returns None for), "binary" (a  *)
(* .txt file that is not UTF-8), "folder" (a directory whose name ends in  *)
(* .txt) and "other" (a file with another extension).                      *)

EntryKinds == {"recipe", "unparsable", "binary", "folder", "other"}

\* file_info.filename.endswith(".txt"), and the glob "*.txt"
IsRecipeFileName(entry) == entry.kind # "other"

\* Path.exists() that finds no data.zip.
ZipNeverExists(zip) == FALSE

\* data_zip_path.exists()
ZipExists(zip) == zip.kind # "absent"

\* recipes_dir_path.exists() and recipes_dir_path.is_dir()
DirIsDirectory(dir) == dir.kind = "directory"

\* Reading one file and ingesting it: the calls, and whether it counts as a
\* success or an error.  Reading a folder or decoding a binary file raises,
\* and the exception is caught and counted.
LoadOne(source, entry) ==
    LET read == Call(source, entry.name,
                     IF entry.kind \in {"binary", "folder"}
                     THEN Raises(Exc("Exception", entry.kind))
                     ELSE Returns(entry.kind)) IN
    IF entry.kind \in {"binary", "folder"}
    THEN [calls |-> <<read>>, success |-> 0, error |-> 1]
    ELSE [calls |-> <<read, Call("ingest_recipe", entry.name,
                                 Returns(entry.kind = "recipe"))>>,
          success |-> IF entry.kind = "recipe" THEN 1 ELSE 0,
          error |-> IF entry.kind = "recipe" THEN 0 ELSE 1]

\* The loop over the entries of the zip file: those that are not recipe
\* files, and the folders, are passed over.
RECURSIVE LoadZipEntries(_, _)
LoadZipEntries(entries, acc) ==
    IF entries = <<>> THEN acc
    ELSE LET e == Head(entries) IN
         IF IsRecipeFileName(e) /\ e.kind # "folder"
         THEN LET one == LoadOne("zip_file.read", e) IN
              LoadZipEntries(Tail(entries),
                  [calls |-> acc.calls \o one.calls,
                   success |-> acc.success + one.success,
                   error |-> acc.error + one.error])
         ELSE LoadZipEntries(Tail(entries), acc)

\* sorted(recipe_files): by name.
RECURSIVE SortedByName(_)
SortedByName(files) ==
    IF files = <<>> THEN <<>>
    ELSE LET k == CHOOSE x \in DOMAIN files :
                     \A y \in DOMAIN files : files[x].name <= files[y].name IN
         <<files[k]>> \o SortedByName(SubSeq(files, 1, k - 1)
                                      \o SubSeq(files, k + 1, Len(files)))

\* The loop over the sorted files of the directory.
RECURSIVE LoadFiles(_, _)
LoadFiles(files, acc) ==
    IF files = <<>> THEN acc
    ELSE LET one == LoadOne("read_text", Head(files)) IN
         LoadFiles(Tail(files),
             [calls |-> acc.calls \o one.calls,
              success |-> acc.success + one.success,
              error |-> acc.error + one.error])

\* load_startup_data: the calls it makes and the two counts.
LoadRun(zip, dir) ==
    IF ZipExists(zip)
    THEN IF zip.kind = "unreadable"
         THEN [calls |-> <<Call("ZipFile", "data.zip",
                                Raises(Exc("Exception", "BadZipFile")))>>,
               success |-> 0, error |-> 0]
         ELSE LoadZipEntries(zip.entries,
                  [calls |-> <<Call("ZipFile", "data.zip", Returns(zip.entries))>>,
                   success |-> 0, error |-> 0])
    ELSE IF DirIsDirectory(dir)
    THEN LET recipe_files == SelectSeq(dir.entries, IsRecipeFileName) IN
         LoadFiles(SortedByName(recipe_files),
             [calls |-> <<Call("glob", "data/recipes", Returns(recipe_files))>>,
              success |-> 0, error |-> 0])
    ELSE [calls |-> <<>>, success |-> 0, error |-> 0]

\* load_startup_data(app)
load_startup_data(zip, dir) ==
    \E run \in {LoadRun(zip, dir)} :
    /\ svcOp = None
    /\ svcOp' = Some([name |-> "load_startup_data", zip |-> zip, dir |-> dir])
    /\ svcCalls' = run.calls
    /\ svcResult' = Some(Returns([success_count |-> run.success,
                                  error_count |-> run.error]))
    /\ UNCHANGED <<store, apiVars, bootVars, parseVars, lifeVars>>

MaxEntries == 2

\* The listings of up to MaxEntries entries, the names in any order.
Listings ==
    UNION {{[k \in 1..n |-> [name |-> names[k], kind |-> kinds[k]]] :
               names \in {f \in [1..n -> 1..n] :
                             \A a, b \in 1..n : f[a] = f[b] => a = b},
               kinds \in [1..n -> EntryKinds]} : n \in 0..MaxEntries}

ZipFiles ==
    {[kind |-> "absent", entries |-> <<>>], [kind |-> "unreadable", entries |-> <<>>]}
    \cup {[kind |-> "zip", entries |-> l] : l \in Listings}

RecipeDirs ==
    {[kind |-> "absent", entries |-> <<>>], [kind |-> "file", entries |-> <<>>]}
    \cup {[kind |-> "directory", entries |-> l] : l \in Listings}

InitLoad == SvcIdle /\ ApiIdle /\ BootIdle /\ ParseIdle /\ LifeIdle

call_load_startup_data ==
    /\ svcOp = None
    /\ \E zip \in ZipFiles, dir \in RecipeDirs : load_startup_data(zip, dir)

NextLoad ==
    \/ call_load_startup_data
    \/ service_return

SpecLoad == InitLoad /\ [][NextLoad]_vars

\* The sources load_startup_data opened.
SourcesUsed ==
    {src \in {"ZipFile", "glob"} : \E k \in DOMAIN svcCalls : svcCalls[k].fn = src}

\* The reads came from the source that was opened.
ReadsFrom(read) ==
    \A k \in DOMAIN svcCalls :
        svcCalls[k].fn \in {"zip_file.read", "read_text"} => svcCalls[k].fn = read

\* C20 (as stated): load_startup_data reads from data.zip when that file
\* exists and from the recipes directory when it does not: exactly one of the
\* two sources is used in a startup.
C20_ExactlyOneSourceIsUsed ==
    IsServiceCall("load_startup_data") =>
        /\ Cardinality(SourcesUsed) = 1
        /\ svcOp[1].zip.kind # "absent" =>
              SourcesUsed = {"ZipFile"} /\ ReadsFrom("zip_file.read")
        /\ svcOp[1].zip.kind = "absent" =>
              SourcesUsed = {"glob"} /\ ReadsFrom("read_text")

\* C20 (amended): data.zip is used when it exists, readable or not; the
\* recipes directory is used when data.zip does not exist and the directory
\* does; when neither exists no source is used and nothing is ingested.
C20_AtMostOneSourceIsUsed ==
    IsServiceCall("load_startup_data") =>
        /\ svcOp[1].zip.kind # "absent" =>
              SourcesUsed = {"ZipFile"} /\ ReadsFrom("zip_file.read")
        /\ (svcOp[1].zip.kind = "absent" /\ svcOp[1].dir.kind = "directory") =>
              SourcesUsed = {"glob"} /\ ReadsFrom("read_text")
        /\ (svcOp[1].zip.kind = "absent" /\ svcOp[1].dir.kind # "directory") =>
              svcCalls = <<>>

\* Without data.zip, a recipe of the directory has been ingested.
C20_Witness ==
    /\ IsServiceCall("load_startup_data")
    /\ svcOp[1].zip.kind = "absent"
    /\ SourcesUsed = {"glob"}
    /\ svcResult[1].value.success_count = 1
    /\ \E k \in DOMAIN svcCalls : svcCalls[k].fn = "ingest_recipe"

----------------------------------------------------------------------------
(* The recipes table under ingestion: recipe files whose sections hold     *)
(* blank lines and lines with surrounding spaces, ingested one at a time   *)
(* into a table that starts empty.                                         *)

\* What a recipe file holds below a section header.
SectionBodies ==
    { <<"a">>,
      <<" ", "b", " ">>,
      <<"a", NL, NL, " ", "b">>,
      <<" ", NL, "a", " ", NL>>,
      <<>>,
      <<" ", NL, " ">> }

\* The first lines of a recipe file, down to the title.
TitleLines == { <<"a">>, <<NL, " ", "b", " ">> }

\* A recipe file: the title, then the two sections under their headers.
RecipeFile(title, ingredients, instructions) ==
    title \o <<NL, "Ingredients:", NL>> \o ingredients
    \o <<NL, NL, "Instructions:", NL>> \o instructions \o <<NL>>

RecipeFiles ==
    {RecipeFile(t, g, n) : t \in TitleLines, g \in SectionBodies, n \in SectionBodies}

InitIngest ==
    /\ store = <<>>
    /\ svcOp = None
    /\ svcCalls = <<>>
    /\ svcResult = None
    /\ ApiIdle /\ BootIdle /\ ParseIdle /\ LifeIdle

call_ingest_recipe_file ==
    /\ svcOp = None
    /\ \E content \in RecipeFiles, failing \in {"none", "create"} :
          ingest_recipe(content, Some(<<1, 0>>), failing)

NextIngest ==
    \/ call_ingest_recipe_file
    \/ service_return

SpecIngest == InitIngest /\ [][NextIngest]_vars

\* A text that is not empty, does not begin or end with white space, and has
\* no white space on either side of a newline: its lines are stripped and
\* none is blank.
StrippedNonBlankLines(t) ==
    /\ t # <<>>
    /\ ~IsSpace(t[1])
    /\ ~IsSpace(t[Len(t)])
    /\ \A k \in 2..(Len(t) - 1) :
           t[k] = NL => ~IsSpace(t[k - 1]) /\ ~IsSpace(t[k + 1])

\* C22: in every reachable state, every stored recipe has a non-empty title,
\* non-empty ingredients and non-empty instructions, each made of stripped
\* lines with no blank line, and recipe ids are unique.
C22_StoredRecipesAreWellFormed ==
    /\ \A k \in DOMAIN store :
           /\ StrippedNonBlankLines(store[k].title)
           /\ StrippedNonBlankLines(store[k].ingredients)
           /\ StrippedNonBlankLines(store[k].instructions)
    /\ \A j, k \in DOMAIN store : store[j].id = store[k].id => j = k

\* A second recipe has been stored from a file whose title line has spaces
\* round it and whose ingredients hold a blank line.
C22_Witness ==
    /\ IsServiceCall("ingest_recipe")
    /\ svcOp[1].content = RecipeFile(<<NL, " ", "b", " ">>,
                                     <<"a", NL, NL, " ", "b">>, <<" ", "b", " ">>)
    /\ Len(store) = 2
    /\ svcResult = Some(Returns(Some(LastRow)))
    /\ LastRow.title = <<"b">>
    /\ LastRow.ingredients = <<"a", NL, "b">>
    /\ LastRow.instructions = <<"b">>

====
